---------------------------- MODULE Spec2Model ----------------------------
(***************************************************************************)
(* Model of the OS-command channel (OsCmdHandler) and of the command       *)
(* adapters of test_scripts/pytest/oscmd_helpers.py.                       *)
(*                                                                         *)
(* Time is counted in milliseconds.  Byte lists (commands, responses) are  *)
(* functions over 0..7, so that an index of the model is the index of the  *)
(* Python list.                                                            *)
(***************************************************************************)
EXTENDS Integers, Sequences, FiniteSets, TLC

VARIABLES
    kind,             \* class of the adapter under test (adapter specification)
    timeout,          \* self.timeout of the adapter, in ms
    current_command,  \* OsCmdHandler.current_command, one per channel
    od_response,      \* the device's response register as last read
    response,         \* the list last returned by OsCmdHandler.get_response
    outcome,          \* how the last operation ended (return value or exception)
    od_calls,         \* object-dictionary calls made by the last operation
    cmd_writes,       \* history: register writes made for the command in flight
    writes_made,      \* history: register writes of the channel so far (2: two or more)
    term_seen,        \* history: a status outside the in-progress set was read
                      \*          since the channel's last register write
    now,              \* time.time(), in ms
    pc,               \* "idle", or "polling" inside a check_response loop
    deadline,         \* the local `timeout` of check_response, in ms
    call_start,       \* history: time at which check_response was called
    input,            \* arguments of the function under study or of the last call
    output,           \* what the function made of it
    sup,              \* the fields of the profiler handler under test
    polls             \* history: the demand values read since the target was set

vars == <<kind, timeout, current_command, od_response, response, outcome, od_calls,
          cmd_writes, writes_made, term_seen, now, pc, deadline, call_start,
          input, output, sup, polls>>

\* The variables of the function specifications and of the profiler handlers.
functionVars == <<input, output>>
profilerVars == <<sup, polls>>

----------------------------------------------------------------------------
(* Bounds of the model *)

\* Latest time the model follows, in ms.
MaxTime == 40

----------------------------------------------------------------------------
(* Enumerations of oscmd_helpers.py *)

ENCODER_REGISTER_COMMUNICATION == 0
ICMU_CALIBRATION == 1
OPEN_LOOP_FIELD_MODE == 2
OSCMD_HRD_STREAMING == 3
MOTOR_PHASE_ORDER_DETECTION == 4
COMMUTATION_OFFSET_MEASUREMENT == 5
OPEN_PHASE_DETECTION == 6
POLE_PAIR_DETECTION == 7
PHASE_RESISTANCE_MEASUREMENT == 8
PHASE_INDUCTANCE_MEASUREMENT == 9
TORQUE_CONSTANT_MEASUREMENT == 10

COMPLETED_NOERROR_NOREPLY == 0
COMPLETED_NOERROR_WITHREPLY == 1
COMPLETED_WITHERROR_NOREPLY == 2
COMPLETED_WITHERROR_WITHREPLY == 3
IN_PROCESS_0 == 100
IN_PROCESS_100 == 200
CMD_IN_PROGRESS == 255

\* OsCmdErrorCodes: value -> name
OsCmdErrorCodes ==
    (251 :> "CMD_NOT_ALLOWED") @@ (252 :> "CMD_ABORTED") @@ (253 :> "CMD_TIMEOUT")
    @@ (254 :> "UNSUPPORTED_CMD") @@ (255 :> "RESERVED_FOR_EXTENSION")

\* OsCmd3ErrorCodes: value -> name
OsCmd3ErrorCodes ==
    (0 :> "INITIALIZATION_ERROR") @@ (1 :> "STREAMING_ERROR")
    @@ (2 :> "DURATION_VALUE_ERROR") @@ (3 :> "DATA_INDEX_VALUE_ERROR")

\* OsCmd6ErrorCodes: value -> name
OsCmd6ErrorCodes ==
    (0 :> "OPEN_TERMINAL_A") @@ (1 :> "OPEN_TERMINAL_B") @@ (2 :> "OPEN_TERMINAL_C")
    @@ (3 :> "OPEN_FET_A_HIGH") @@ (4 :> "OPEN_FET_A_LOW") @@ (5 :> "OPEN_FET_B_HIGH")
    @@ (6 :> "OPEN_FET_B_LOW") @@ (7 :> "OPEN_FET_C_HIGH") @@ (8 :> "OPEN_FET_C_LOW")

----------------------------------------------------------------------------
(* Values *)

\* Python's None for current_command: the empty list stands for it (no command
\* of the program is empty: every command has 8 entries).
None == <<>>

\* A list of 8 integers, indexed as in Python.
List8(b0, b1, b2, b3, b4, b5, b6, b7) ==
    (0 :> b0) @@ (1 :> b1) @@ (2 :> b2) @@ (3 :> b3)
    @@ (4 :> b4) @@ (5 :> b5) @@ (6 :> b6) @@ (7 :> b7)

\* bytes(command) raises ValueError unless every entry is in range(256).
BytesOk(command) == \A i \in DOMAIN command : command[i] \in 0..255

\* How an operation ended.
Outcome(op, k, msg, value, name) ==
    [op |-> op, kind |-> k, msg |-> msg, value |-> value, name |-> name]

NoOutcome == Outcome("", "none", "", 0, "")

\* History counters count up to "two or more".
SatInc(n) == IF n < 2 THEN n + 1 ELSE n

\* The two channels of the model (each adapter instance constructs its own
\* OsCmdHandler).
Channels == {"h1", "h2"}

\* OsCmdHandler.__init__: status_in_progress
MutStatusNoSentinel == IN_PROCESS_0..IN_PROCESS_100
status_in_progress == {CMD_IN_PROGRESS} \cup (IN_PROCESS_0..IN_PROCESS_100)

----------------------------------------------------------------------------
(* OsCmdHandler *)

\* One call of the object dictionary: the command-register write
\* od.os_command_command(bytes) or the response-register read
\* od.os_command_response().
OdWrite(bytes) == [call |-> "os_command_command", arg |-> bytes]
OdRead == [call |-> "os_command_response", arg |-> None]

\* OsCmdHandler.get_active_command
get_active_command(h) == current_command[h]

MutExecuteNoBusyCheck(h, command, op) ==
    /\ current_command' = [current_command EXCEPT ![h] = command]
    /\ cmd_writes' = [cmd_writes EXCEPT ![h] = IF BytesOk(command) THEN 1 ELSE 0]
    /\ od_calls' = IF BytesOk(command) THEN <<OdWrite(command)>> ELSE <<>>
    /\ writes_made' = [writes_made EXCEPT ![h] = IF BytesOk(command) THEN SatInc(@) ELSE @]
    /\ term_seen' = [term_seen EXCEPT ![h] = @ /\ ~BytesOk(command)]
    /\ outcome' = IF BytesOk(command) THEN Outcome(op, "return", "None", 0, "")
                  ELSE Outcome(op, "ValueError", "bytes", 0, "")

MutExecuteBusyOverwrites(h, command, op) ==
    /\ current_command' = [current_command EXCEPT ![h] = command]
    /\ IF current_command[h] # None
       THEN /\ outcome' = Outcome(op, "Failed", "busy", 0, "")
            /\ od_calls' = <<>>
            /\ UNCHANGED <<cmd_writes, writes_made, term_seen>>
       ELSE /\ cmd_writes' = [cmd_writes EXCEPT ![h] = IF BytesOk(command) THEN 1 ELSE 0]
            /\ od_calls' = IF BytesOk(command) THEN <<OdWrite(command)>> ELSE <<>>
            /\ writes_made' = [writes_made EXCEPT ![h] = IF BytesOk(command) THEN SatInc(@) ELSE @]
            /\ term_seen' = [term_seen EXCEPT ![h] = @ /\ ~BytesOk(command)]
            /\ outcome' = IF BytesOk(command) THEN Outcome(op, "return", "None", 0, "")
                          ELSE Outcome(op, "ValueError", "bytes", 0, "")

MutExecuteSharedMarker(h, command, op) ==
    IF \E g \in Channels : current_command[g] # None
    THEN /\ outcome' = Outcome(op, "Failed", "busy", 0, "")
         /\ od_calls' = <<>>
         /\ UNCHANGED <<current_command, cmd_writes, writes_made, term_seen>>
    ELSE /\ current_command' = [g \in Channels |-> command]
         /\ cmd_writes' = [cmd_writes EXCEPT ![h] = IF BytesOk(command) THEN 1 ELSE 0]
         /\ od_calls' = IF BytesOk(command) THEN <<OdWrite(command)>> ELSE <<>>
         /\ writes_made' = [writes_made EXCEPT ![h] = IF BytesOk(command) THEN SatInc(@) ELSE @]
         /\ term_seen' = [term_seen EXCEPT ![h] = @ /\ ~BytesOk(command)]
         /\ outcome' = IF BytesOk(command) THEN Outcome(op, "return", "None", 0, "")
                       ELSE Outcome(op, "ValueError", "bytes", 0, "")
\* OsCmdHandler.execute_command, called by the operation `op`.
\*   busy: pytest.fail raises, nothing is assigned and nothing is written;
\*   else: current_command is assigned first, then bytes(command) is built
\*         (ValueError for an entry outside range(256)) and written.
execute_command(h, command, op) ==
    IF current_command[h] # None
    THEN /\ outcome' = Outcome(op, "Failed", "busy", 0, "")
         /\ od_calls' = <<>>
         /\ UNCHANGED <<current_command, cmd_writes, writes_made, term_seen>>
    ELSE /\ current_command' = [current_command EXCEPT ![h] = command]
         /\ cmd_writes' = [cmd_writes EXCEPT ![h] = IF BytesOk(command) THEN 1 ELSE 0]
         /\ od_calls' = IF BytesOk(command) THEN <<OdWrite(command)>> ELSE <<>>
         /\ writes_made' = [writes_made EXCEPT ![h] = IF BytesOk(command) THEN SatInc(@) ELSE @]
         /\ term_seen' = [term_seen EXCEPT ![h] = @ /\ ~BytesOk(command)]
         /\ outcome' = IF BytesOk(command) THEN Outcome(op, "return", "None", 0, "")
                       ELSE Outcome(op, "ValueError", "bytes", 0, "")

MutGetResponseNeverClears(h, raw) ==
    /\ od_response' = raw
    /\ response' = raw
    /\ od_calls' = <<OdRead>>
    /\ term_seen' = [term_seen EXCEPT ![h] = @ \/ raw[0] \notin status_in_progress]
    /\ UNCHANGED <<current_command, cmd_writes>>

MutGetResponseAlwaysClears(h, raw) ==
    /\ od_response' = raw
    /\ response' = raw
    /\ od_calls' = <<OdRead>>
    /\ term_seen' = [term_seen EXCEPT ![h] = @ \/ raw[0] \notin status_in_progress]
    /\ current_command' = [current_command EXCEPT ![h] = None]
    /\ cmd_writes' = [cmd_writes EXCEPT ![h] = 0]
\* OsCmdHandler.get_response; `raw` is what od.os_command_response() holds.
get_response(h, raw) ==
    /\ od_response' = raw
    /\ response' = raw
    /\ od_calls' = <<OdRead>>
    /\ term_seen' = [term_seen EXCEPT ![h] = @ \/ raw[0] \notin status_in_progress]
    /\ IF raw[0] \notin status_in_progress
       THEN /\ current_command' = [current_command EXCEPT ![h] = None]
            /\ cmd_writes' = [cmd_writes EXCEPT ![h] = 0]
       ELSE UNCHANGED <<current_command, cmd_writes>>

----------------------------------------------------------------------------
(* The channel alone: raw commands and raw polls on the channel "h1" *)

\* Raw commands given to execute_command: two that convert to bytes and one
\* that does not (write_register with a register value of 256).
RawCommands ==
    { List8(COMMUTATION_OFFSET_MEASUREMENT, 0, 0, 0, 0, 0, 0, 0),
      List8(ENCODER_REGISTER_COMMUNICATION, 1, 1, 0, 7, 0, 0, 0),
      List8(ENCODER_REGISTER_COMMUNICATION, 1, 1, 0, 256, 0, 0, 0) }

\* Every value of the status byte.
StatusBytes == 0..255

\* A response of the device: status, reserved byte, payload.
Resp(status, b2, b3) == List8(status, 0, b2, b3, 0, 0, 0, 0)

ChannelResponses == { Resp(s, 0, 0) : s \in StatusBytes }

InitChannel ==
    /\ kind = "OsCmdHandler"
    /\ timeout = 0
    /\ current_command = [h \in Channels |-> None]
    /\ od_response = None
    /\ response = None
    /\ outcome = NoOutcome
    /\ od_calls = <<>>
    /\ cmd_writes = [h \in Channels |-> 0]
    /\ writes_made = [h \in Channels |-> 0]
    /\ term_seen = [h \in Channels |-> FALSE]
    /\ now = 0
    /\ pc = "idle"
    /\ deadline = 0
    /\ call_start = 0
    /\ input = None
    /\ output = None
    /\ sup = None
    /\ polls = <<>>

ExecuteCommand(h, command) ==
    /\ execute_command(h, command, "execute_command")
    /\ UNCHANGED <<kind, timeout, od_response, response, now, pc, deadline, call_start>>
    /\ UNCHANGED <<functionVars, profilerVars>>

GetResponse(h, raw) ==
    /\ get_response(h, raw)
    /\ outcome' = Outcome("get_response", "return", "response", 0, "")
    /\ UNCHANGED <<kind, timeout, writes_made, now, pc, deadline, call_start>>
    /\ UNCHANGED <<functionVars, profilerVars>>

NextChannel ==
    \/ \E command \in RawCommands : ExecuteCommand("h1", command)
    \/ \E raw \in ChannelResponses : GetResponse("h1", raw)

SpecChannel == InitChannel /\ [][NextChannel]_vars

\* Two adapters constructed on the same device, each with the OsCmdHandler
\* its __init__ creates ("h1" and "h2"); the registers of the device are
\* shared.  `input` tells which adapter was called.
AdapterExecuteCommand(h, command) ==
    /\ kind = "OsCmdHandler"
    /\ execute_command(h, command, "execute_command")
    /\ input' = [channel |-> h, command |-> command]
    /\ UNCHANGED <<kind, timeout, od_response, response, now, pc, deadline, call_start,
                   output, profilerVars>>

AdapterGetResponse(h, raw) ==
    /\ kind = "OsCmdHandler"
    /\ get_response(h, raw)
    /\ outcome' = Outcome("get_response", "return", "response", 0, "")
    /\ input' = [channel |-> h, command |-> None]
    /\ UNCHANGED <<kind, timeout, writes_made, now, pc, deadline, call_start,
                   output, profilerVars>>

\* The statuses the shared device answers with.
TwoAdapterResponses == { Resp(s, 0, 0) : s \in {0, 1, 2, 3, 4, 100, 200, 255} }

NextTwoAdapters ==
    \/ \E h \in Channels, command \in RawCommands : AdapterExecuteCommand(h, command)
    \/ \E h \in Channels, raw \in TwoAdapterResponses : AdapterGetResponse(h, raw)

SpecTwoAdapters == InitChannel /\ [][NextTwoAdapters]_vars

----------------------------------------------------------------------------
(* Bit operations of Python on non-negative integers *)

RECURSIVE BitOr(_, _)
BitOr(a, b) ==
    IF a = 0 THEN b
    ELSE IF b = 0 THEN a
    ELSE (IF a % 2 = 1 \/ b % 2 = 1 THEN 1 ELSE 0) + 2 * BitOr(a \div 2, b \div 2)

RECURSIVE BitAnd(_, _)
BitAnd(a, b) ==
    IF a = 0 \/ b = 0 THEN 0
    ELSE (IF a % 2 = 1 /\ b % 2 = 1 THEN 1 ELSE 0) + 2 * BitAnd(a \div 2, b \div 2)

Shl(a, n) == a * 2^n
Shr(a, n) == a \div 2^n

(* The same operations on integers of 32 bits and more, which the integers *)
(* of the model checker cannot hold: a non-negative Python integer as the  *)
(* sequence of its binary digits, lowest first, without leading zeros.     *)

RECURSIVE Big(_)
Big(n) == IF n = 0 THEN <<>> ELSE <<n % 2>> \o Big(n \div 2)

RECURSIVE IntOf(_)
IntOf(b) == IF b = <<>> THEN 0 ELSE Head(b) + 2 * IntOf(Tail(b))

RECURSIVE Trim(_)
Trim(b) ==
    IF b = <<>> THEN <<>>
    ELSE IF b[Len(b)] = 0 THEN Trim(SubSeq(b, 1, Len(b) - 1))
    ELSE b

BigBit(b, i) == IF i \in DOMAIN b THEN b[i] ELSE 0

BigAnd(a, b) ==
    Trim([i \in 1..(IF Len(a) < Len(b) THEN Len(a) ELSE Len(b)) |-> a[i] * b[i]])

BigOr(a, b) ==
    [i \in 1..(IF Len(a) < Len(b) THEN Len(b) ELSE Len(a)) |->
        IF BigBit(a, i) = 1 \/ BigBit(b, i) = 1 THEN 1 ELSE 0]

BigShl(a, n) == IF a = <<>> THEN <<>> ELSE [i \in 1..n |-> 0] \o a

BigShr(a, n) == IF Len(a) <= n THEN <<>> ELSE SubSeq(a, n + 1, Len(a))

\* The masks 0xFF, 0xFF00, 0xFF0000 and 0xFF000000 of the setters.
ByteMask(shift) == BigShl(Big(255), shift)

----------------------------------------------------------------------------
(* The polling routines of the adapters: one iteration of `while True` *)
(*                                                                         *)
(* The routines compare the status with `is`.  The entries of              *)
(* list(od.os_command_response()) are integers in range(256), which the    *)
(* interpreter keeps as single objects, so the comparison is an equality.  *)

\* time.sleep(0.010) in every polling loop, in ms
PollInterval == 10

Returned(v) == Outcome("check_response", "return", "value", v, "")
ReturnedTrue == Outcome("check_response", "return", "True", 1, "")
\* raise OsCommandException("... (OS error code {}: {}).".format(code, name))
RaiseErrorCode(code, name) ==
    Outcome("check_response", "OsCommandException", "error_code", code, name)
\* raise OsCommandException("OS command returned an error (no OS error code).")
RaiseNoErrorCode ==
    Outcome("check_response", "OsCommandException", "no_error_code", 0, "")
\* pytest.fail("... but the OS error code is unknown ({}).".format(code))
FailUnknownCode(code) ==
    Outcome("check_response", "Failed", "unknown_error_code", code, "")
MutNotValidStatusReturns(opcode, status) ==
    Outcome("check_response", "return", "True", 1, "")
\* pytest.fail("Not valid status for OS command {}: {}.".format(opcode, status))
FailNotValidStatus(opcode, status) ==
    Outcome("check_response", "Failed", "not_valid_status", status, ToString(opcode))
\* pytest.fail("OS command status was in progress for {} seconds.".format(t))
FailTimeout(t) ==
    Outcome("check_response", "Failed", "in_progress_timeout", t, "")
\* raise OsCommandException("OS command status was in progress for {} seconds.")
RaiseTimeout(t) ==
    Outcome("check_response", "OsCommandException", "in_progress_timeout", t, "")
\* `pass`: the loop goes on
Pass == Outcome("check_response", "none", "pass", 0, "")

MutErrorReplyNeverUnknown(code) ==
    IF code \in DOMAIN OsCmdErrorCodes
    THEN RaiseErrorCode(code, OsCmdErrorCodes[code])
    ELSE RaiseErrorCode(code, "")
\* The branch for COMPLETED_WITHERROR_WITHREPLY of the adapters that know the
\* generic error codes only.
ErrorReply(code) ==
    IF code \in DOMAIN OsCmdErrorCodes
    THEN RaiseErrorCode(code, OsCmdErrorCodes[code])
    ELSE FailUnknownCode(code)

MutErrorReply3GenericOnly(code) == ErrorReply(code)

\* The same branch of HrdStreamingHandler.check_response.
ErrorReply3(code) ==
    IF code \in DOMAIN OsCmdErrorCodes
    THEN RaiseErrorCode(code, OsCmdErrorCodes[code])
    ELSE IF code \in DOMAIN OsCmd3ErrorCodes
    THEN RaiseErrorCode(code, OsCmd3ErrorCodes[code])
    ELSE FailUnknownCode(code)

\* The same branch of OpenPhaseDetectionHandler.check_response.
ErrorReply6(code) ==
    IF code \in DOMAIN OsCmdErrorCodes
    THEN RaiseErrorCode(code, OsCmdErrorCodes[code])
    ELSE IF code \in DOMAIN OsCmd6ErrorCodes
    THEN RaiseErrorCode(code, OsCmd6ErrorCodes[code])
    ELSE FailUnknownCode(code)

MutLoopDeadlineFirst(handled, expired, on_timeout) ==
    IF expired THEN on_timeout ELSE handled
\* The end of an iteration: a return or a raise of the status branches ends
\* the call; otherwise `if time.time() > timeout` decides.
LoopIteration(handled, expired, on_timeout) ==
    IF handled.kind # "none" THEN handled
    ELSE IF expired THEN on_timeout
    ELSE handled

EncoderRegisterCommunicationHandler_check_response(r, expired, t) ==
    LoopIteration(
        IF r[0] = COMPLETED_NOERROR_WITHREPLY THEN Returned(r[2])
        ELSE IF r[0] = COMPLETED_WITHERROR_WITHREPLY THEN ErrorReply(r[2])
        ELSE IF r[0] = COMPLETED_WITHERROR_NOREPLY THEN RaiseNoErrorCode
        ELSE IF r[0] \in status_in_progress THEN Pass
        ELSE FailNotValidStatus(ENCODER_REGISTER_COMMUNICATION, r[0]),
        expired, FailTimeout(t))

IcmuCalibrationModeHandler_check_response(r, expired, t) ==
    LoopIteration(
        IF r[0] = COMPLETED_NOERROR_NOREPLY THEN ReturnedTrue
        ELSE IF r[0] = COMPLETED_WITHERROR_WITHREPLY THEN ErrorReply(r[2])
        ELSE IF r[0] = COMPLETED_WITHERROR_NOREPLY THEN RaiseNoErrorCode
        ELSE IF r[0] \in status_in_progress THEN Pass
        ELSE FailNotValidStatus(ICMU_CALIBRATION, r[0]),
        expired, FailTimeout(t))

HrdStreamingHandler_check_response(r, expired, t) ==
    LoopIteration(
        IF r[0] = COMPLETED_NOERROR_NOREPLY THEN ReturnedTrue
        ELSE IF r[0] = COMPLETED_WITHERROR_WITHREPLY THEN ErrorReply3(r[2])
        ELSE IF r[0] = COMPLETED_WITHERROR_NOREPLY THEN RaiseNoErrorCode
        ELSE IF r[0] \in status_in_progress THEN Pass
        ELSE FailNotValidStatus(OSCMD_HRD_STREAMING, r[0]),
        expired, FailTimeout(t))

PhaseOrderDetectionHandler_check_response(r, expired, t) ==
    LoopIteration(
        IF r[0] = COMPLETED_NOERROR_WITHREPLY THEN Returned(r[2])
        ELSE IF r[0] = COMPLETED_WITHERROR_WITHREPLY THEN ErrorReply(r[2])
        ELSE IF r[0] = COMPLETED_WITHERROR_NOREPLY THEN RaiseNoErrorCode
        ELSE IF r[0] \in status_in_progress THEN Pass
        ELSE FailNotValidStatus(COMMUTATION_OFFSET_MEASUREMENT, r[0]),
        expired, FailTimeout(t))

MutOffsetLowByteOnly(r, expired, t) == Returned(r[3])
CommutationOffsetMeasurementHandler_check_response(r, expired, t) ==
    LoopIteration(
        IF r[0] = COMPLETED_NOERROR_WITHREPLY THEN Returned(BitOr(Shl(r[2], 8), r[3]))
        ELSE IF r[0] = COMPLETED_WITHERROR_WITHREPLY THEN ErrorReply(r[2])
        ELSE IF r[0] = COMPLETED_WITHERROR_NOREPLY THEN RaiseNoErrorCode
        ELSE IF r[0] \in status_in_progress THEN Pass
        ELSE FailNotValidStatus(COMMUTATION_OFFSET_MEASUREMENT, r[0]),
        expired, FailTimeout(t))

\* OpenLoopFieldModeHandler.get_response (the polling routine of this adapter):
\* it has no branch for COMPLETED_WITHERROR_NOREPLY.
OpenLoopFieldModeHandler_get_response(r, expired, t) ==
    LoopIteration(
        IF r[0] = COMPLETED_NOERROR_NOREPLY THEN ReturnedTrue
        ELSE IF r[0] = COMPLETED_WITHERROR_WITHREPLY THEN ErrorReply(r[2])
        ELSE IF r[0] \in status_in_progress THEN Pass
        ELSE FailNotValidStatus(OPEN_PHASE_DETECTION, r[0]),
        expired, FailTimeout(t))

\* OpenPhaseDetectionHandler.check_response: no branch for
\* COMPLETED_WITHERROR_NOREPLY either.
OpenPhaseDetectionHandler_check_response(r, expired, t) ==
    LoopIteration(
        IF r[0] = COMPLETED_NOERROR_NOREPLY THEN ReturnedTrue
        ELSE IF r[0] = COMPLETED_WITHERROR_WITHREPLY THEN ErrorReply6(r[2])
        ELSE IF r[0] \in status_in_progress THEN Pass
        ELSE FailNotValidStatus(OPEN_PHASE_DETECTION, r[0]),
        expired, FailTimeout(t))

PolePairDetectionHandler_check_response(r, expired, t) ==
    LoopIteration(
        IF r[0] = COMPLETED_NOERROR_WITHREPLY THEN Returned(r[2])
        ELSE IF r[0] = COMPLETED_WITHERROR_WITHREPLY THEN ErrorReply(r[2])
        ELSE IF r[0] = COMPLETED_WITHERROR_NOREPLY THEN RaiseNoErrorCode
        ELSE IF r[0] \in status_in_progress THEN Pass
        ELSE FailNotValidStatus(POLE_PAIR_DETECTION, r[0]),
        expired, FailTimeout(t))

\* response[2] << 24 | response[3] << 16 | response[4] << 8 | response[5]
Decode32(r) ==
    BigOr(BigOr(BigOr(BigShl(Big(r[2]), 24), BigShl(Big(r[3]), 16)),
                BigShl(Big(r[4]), 8)),
          Big(r[5]))

PhaseResistanceMeasurementHandler_check_response(r, expired, t) ==
    LoopIteration(
        IF r[0] = COMPLETED_NOERROR_WITHREPLY THEN Returned(IntOf(Decode32(r)))
        ELSE IF r[0] = COMPLETED_WITHERROR_WITHREPLY THEN ErrorReply(r[2])
        ELSE IF r[0] = COMPLETED_WITHERROR_NOREPLY THEN RaiseNoErrorCode
        ELSE IF r[0] \in status_in_progress THEN Pass
        ELSE FailNotValidStatus(PHASE_RESISTANCE_MEASUREMENT, r[0]),
        expired, FailTimeout(t))

\* PhaseInductanceMeasurementHandler.check_response raises OsCommandException
\* when the deadline has passed.
PhaseInductanceMeasurementHandler_check_response(r, expired, t) ==
    LoopIteration(
        IF r[0] = COMPLETED_NOERROR_WITHREPLY THEN Returned(IntOf(Decode32(r)))
        ELSE IF r[0] = COMPLETED_WITHERROR_WITHREPLY THEN ErrorReply(r[2])
        ELSE IF r[0] = COMPLETED_WITHERROR_NOREPLY THEN RaiseNoErrorCode
        ELSE IF r[0] \in status_in_progress THEN Pass
        ELSE FailNotValidStatus(PHASE_INDUCTANCE_MEASUREMENT, r[0]),
        expired, RaiseTimeout(t))

TorqueConstantMeasurementHandler_check_response(r, expired, t) ==
    LoopIteration(
        IF r[0] = COMPLETED_NOERROR_WITHREPLY THEN Returned(IntOf(Decode32(r)))
        ELSE IF r[0] = COMPLETED_WITHERROR_WITHREPLY THEN ErrorReply(r[2])
        ELSE IF r[0] = COMPLETED_WITHERROR_NOREPLY THEN RaiseNoErrorCode
        ELSE IF r[0] \in status_in_progress THEN Pass
        ELSE FailNotValidStatus(TORQUE_CONSTANT_MEASUREMENT, r[0]),
        expired, FailTimeout(t))

\* The adapter classes.
Adapters ==
    { "EncoderRegisterCommunicationHandler", "IcmuCalibrationModeHandler",
      "HrdStreamingHandler", "PhaseOrderDetectionHandler",
      "CommutationOffsetMeasurementHandler", "OpenLoopFieldModeHandler",
      "OpenPhaseDetectionHandler", "PolePairDetectionHandler",
      "PhaseResistanceMeasurementHandler", "PhaseInductanceMeasurementHandler",
      "TorqueConstantMeasurementHandler" }

\* One iteration of the polling routine of the adapter of class k.
check_response(k, r, expired, t) ==
    CASE k = "EncoderRegisterCommunicationHandler" ->
             EncoderRegisterCommunicationHandler_check_response(r, expired, t)
      [] k = "IcmuCalibrationModeHandler" ->
             IcmuCalibrationModeHandler_check_response(r, expired, t)
      [] k = "HrdStreamingHandler" ->
             HrdStreamingHandler_check_response(r, expired, t)
      [] k = "PhaseOrderDetectionHandler" ->
             PhaseOrderDetectionHandler_check_response(r, expired, t)
      [] k = "CommutationOffsetMeasurementHandler" ->
             CommutationOffsetMeasurementHandler_check_response(r, expired, t)
      [] k = "OpenLoopFieldModeHandler" ->
             OpenLoopFieldModeHandler_get_response(r, expired, t)
      [] k = "OpenPhaseDetectionHandler" ->
             OpenPhaseDetectionHandler_check_response(r, expired, t)
      [] k = "PolePairDetectionHandler" ->
             PolePairDetectionHandler_check_response(r, expired, t)
      [] k = "PhaseResistanceMeasurementHandler" ->
             PhaseResistanceMeasurementHandler_check_response(r, expired, t)
      [] k = "PhaseInductanceMeasurementHandler" ->
             PhaseInductanceMeasurementHandler_check_response(r, expired, t)
      [] k = "TorqueConstantMeasurementHandler" ->
             TorqueConstantMeasurementHandler_check_response(r, expired, t)

----------------------------------------------------------------------------
(* The commands the adapters build *)

read_register(encoder_connector, register_address, slave_address) ==
    List8(ENCODER_REGISTER_COMMUNICATION, encoder_connector,
          BitOr(0, Shl(slave_address, 1)), register_address, 0, 0, 0, 0)

write_register(encoder_connector, register_address, register_value, slave_address) ==
    List8(ENCODER_REGISTER_COMMUNICATION, encoder_connector,
          BitOr(1, Shl(slave_address, 1)), register_address, register_value, 0, 0, 0)

enable_mode(encoder_connector, mode) ==
    List8(ICMU_CALIBRATION, BitOr(encoder_connector, Shl(mode, 3)), 0, 0, 0, 0, 0, 0)

configure_stream(data_index, duration_in_ms) ==
    List8(OSCMD_HRD_STREAMING, 0, data_index,
          BitAnd(Shr(duration_in_ms, 8), 255), BitAnd(duration_in_ms, 255), 0, 0, 0)

\* self.timeout = duration_in_ms * 1000 + 1 (seconds), here in ms
configure_stream_timeout(duration_in_ms) == (duration_in_ms * 1000 + 1) * 1000

start_stream == List8(OSCMD_HRD_STREAMING, 1, 0, 0, 0, 0, 0, 0)

\* The adapters with a start_procedure method and the opcode each sends.
StartProcedureOpcode ==
    ("PhaseOrderDetectionHandler" :> MOTOR_PHASE_ORDER_DETECTION)
    @@ ("CommutationOffsetMeasurementHandler" :> COMMUTATION_OFFSET_MEASUREMENT)
    @@ ("OpenPhaseDetectionHandler" :> OPEN_PHASE_DETECTION)
    @@ ("PolePairDetectionHandler" :> POLE_PAIR_DETECTION)
    @@ ("PhaseResistanceMeasurementHandler" :> PHASE_RESISTANCE_MEASUREMENT)
    @@ ("PhaseInductanceMeasurementHandler" :> PHASE_INDUCTANCE_MEASUREMENT)
    @@ ("TorqueConstantMeasurementHandler" :> TORQUE_CONSTANT_MEASUREMENT)

start_procedure(k) == List8(StartProcedureOpcode[k], 0, 0, 0, 0, 0, 0, 0)

MutSetOpenLoopLsbFirst(b1, value) ==
    List8(2, b1,
          IntOf(BigAnd(value, ByteMask(0))),
          IntOf(BigShr(BigAnd(value, ByteMask(8)), 8)),
          IntOf(BigShr(BigAnd(value, ByteMask(16)), 16)),
          IntOf(BigShr(BigAnd(value, ByteMask(24)), 24)), 0, 0)
\* The seven setters of OpenLoopFieldModeHandler: b0 = 2, b1 = the setter's
\* sub-index (0: starting angle .. 6: length speed), b2..b5 = value, MSB first.
set_open_loop_parameter(b1, value) ==
    List8(2, b1,
          IntOf(BigShr(BigAnd(value, ByteMask(24)), 24)),
          IntOf(BigShr(BigAnd(value, ByteMask(16)), 16)),
          IntOf(BigShr(BigAnd(value, ByteMask(8)), 8)),
          IntOf(BigAnd(value, ByteMask(0))), 0, 0)

----------------------------------------------------------------------------
(* One adapter, its channel "h1" and the device *)

\* The timeouts given to the adapter's constructor, in ms.
Timeouts == {0, 15}

\* The status bytes the device answers with: the four terminal statuses, the
\* in-progress range with its ends, the sentinel, and unrecognized values.
PolledStatuses == {0, 1, 2, 3, 4, 99, 100, 150, 200, 201, 254, 255}

Resp5(status, b2, b3, b4, b5) == List8(status, 0, b2, b3, b4, b5, 0, 0)

\* The responses of the device: a payload comes with the two with-reply
\* statuses (a reply value, or an error code known to all, to some or to no
\* adapter).  Reply bytes stay below 128 so that the 32-bit replies fit the
\* integers of the model checker.
DeviceResponses ==
    { Resp5(s, 0, 0, 0, 0) : s \in PolledStatuses \ {1, 3} }
    \cup { Resp5(COMPLETED_NOERROR_WITHREPLY, b[1], b[2], 0, b[2])
             : b \in {1, 127} \X {0, 44} }
    \cup { Resp5(COMPLETED_WITHERROR_WITHREPLY, c, 0, 0, 0)
             : c \in {0, 3, 4, 8, 9, 250, 251, 253, 255} }

Init ==
    /\ kind \in Adapters
    /\ timeout \in Timeouts
    /\ current_command = [h \in Channels |-> None]
    /\ od_response = None
    /\ response = None
    /\ outcome = NoOutcome
    /\ od_calls = <<>>
    /\ cmd_writes = [h \in Channels |-> 0]
    /\ writes_made = [h \in Channels |-> 0]
    /\ term_seen = [h \in Channels |-> FALSE]
    /\ now = 0
    /\ pc = "idle"
    /\ deadline = 0
    /\ call_start = 0
    /\ input = None
    /\ output = None
    /\ sup = None
    /\ polls = <<>>

\* What a command-issuing method leaves alone (but for configure_stream's
\* timeout).
IssueFrame ==
    UNCHANGED <<kind, od_response, response, now, pc, deadline, call_start,
                functionVars, profilerVars>>

StartProcedure ==
    /\ pc = "idle"
    /\ kind \in DOMAIN StartProcedureOpcode
    /\ execute_command("h1", start_procedure(kind), "start_procedure")
    /\ UNCHANGED timeout
    /\ IssueFrame

ReadRegister(encoder_connector, register_address, slave_address) ==
    /\ pc = "idle"
    /\ kind = "EncoderRegisterCommunicationHandler"
    /\ execute_command("h1", read_register(encoder_connector, register_address,
                                           slave_address), "read_register")
    /\ UNCHANGED timeout
    /\ IssueFrame

WriteRegister(encoder_connector, register_address, register_value, slave_address) ==
    /\ pc = "idle"
    /\ kind = "EncoderRegisterCommunicationHandler"
    /\ execute_command("h1", write_register(encoder_connector, register_address,
                                            register_value, slave_address),
                       "write_register")
    /\ UNCHANGED timeout
    /\ IssueFrame

EnableMode(encoder_connector, mode) ==
    /\ pc = "idle"
    /\ kind = "IcmuCalibrationModeHandler"
    /\ execute_command("h1", enable_mode(encoder_connector, mode), "enable_mode")
    /\ UNCHANGED timeout
    /\ IssueFrame

ConfigureStream(data_index, duration_in_ms) ==
    /\ pc = "idle"
    /\ kind = "HrdStreamingHandler"
    /\ timeout' = configure_stream_timeout(duration_in_ms)
    /\ execute_command("h1", configure_stream(data_index, duration_in_ms),
                       "configure_stream")
    /\ IssueFrame

StartStream ==
    /\ pc = "idle"
    /\ kind = "HrdStreamingHandler"
    /\ execute_command("h1", start_stream, "start_stream")
    /\ UNCHANGED timeout
    /\ IssueFrame

SetOpenLoopParameter(b1, value) ==
    /\ pc = "idle"
    /\ kind = "OpenLoopFieldModeHandler"
    /\ execute_command("h1", set_open_loop_parameter(b1, Big(value)),
                       "set_open_loop_parameter")
    /\ UNCHANGED timeout
    /\ IssueFrame

\* check_response is called: timeout = time.time() + self.timeout
CheckResponse ==
    /\ pc = "idle"
    /\ kind \in Adapters
    /\ pc' = "polling"
    /\ deadline' = now + timeout
    /\ call_start' = now
    /\ outcome' = Pass
    /\ od_calls' = <<>>
    /\ UNCHANGED <<kind, timeout, current_command, od_response, response,
                   cmd_writes, writes_made, term_seen, now>>
    /\ UNCHANGED <<functionVars, profilerVars>>

\* One iteration of the loop: get_response, sleep, the status branches and
\* the deadline.
Poll(raw) ==
    /\ pc = "polling"
    /\ now + PollInterval <= MaxTime
    /\ get_response("h1", raw)
    /\ now' = now + PollInterval
    /\ outcome' = check_response(kind, raw, now' > deadline, timeout)
    /\ pc' = IF outcome'.kind = "none" THEN "polling" ELSE "idle"
    /\ UNCHANGED <<kind, timeout, writes_made, deadline, call_start>>
    /\ UNCHANGED <<functionVars, profilerVars>>

Next ==
    \/ StartProcedure
    \/ ReadRegister(1, 0, 0)
    \/ \E v \in {7, 256} : WriteRegister(1, 0, v, 0)
    \/ \E mode \in 0..2 : EnableMode(1, mode)
    \/ ConfigureStream(0, 300)
    \/ StartStream
    \/ \E b1 \in 0..6 : SetOpenLoopParameter(b1, 16909060)
    \/ CheckResponse
    \/ \E raw \in DeviceResponses : Poll(raw)

Spec == Init /\ [][Next]_vars

----------------------------------------------------------------------------
(* The reply decoding and the command encoding as functions of their input *)

\* The state around a function under study: nothing else is going on.
InitFunction(k, inputs) ==
    /\ kind = k
    /\ timeout = 0
    /\ current_command = [h \in Channels |-> None]
    /\ od_response = None
    /\ response = None
    /\ outcome = NoOutcome
    /\ od_calls = <<>>
    /\ cmd_writes = [h \in Channels |-> 0]
    /\ writes_made = [h \in Channels |-> 0]
    /\ term_seen = [h \in Channels |-> FALSE]
    /\ now = 0
    /\ pc = "idle"
    /\ deadline = 0
    /\ call_start = 0
    /\ input \in inputs
    /\ output = None
    /\ sup = None
    /\ polls = <<>>

\* The function has been applied to `input`, giving `result`.
Applied(result) ==
    /\ pc' = "done"
    /\ output' = result
    /\ UNCHANGED <<kind, timeout, current_command, od_response, response, outcome,
                   od_calls, cmd_writes, writes_made, term_seen, now, deadline,
                   call_start, input, profilerVars>>

\* Every value of a byte of list(od.os_command_response()).
Bytes == 0..255

\* Success-with-reply responses: every value of the bytes 2 and 3 with the
\* other bytes zero, and some values of them with every other byte 0 or 255.
OffsetResponses ==
    { List8(COMPLETED_NOERROR_WITHREPLY, 0, b2, b3, 0, 0, 0, 0) : b2 \in Bytes, b3 \in Bytes }
    \cup { List8(COMPLETED_NOERROR_WITHREPLY, o[1], b[1], b[2], o[2], o[3], o[4], o[5])
             : b \in {1, 44, 255} \X {0, 44, 255},
               o \in {0, 255} \X {0, 255} \X {0, 255} \X {0, 255} \X {0, 255} }

InitOffsetDecode ==
    InitFunction("CommutationOffsetMeasurementHandler",
                 [response : OffsetResponses, expired : BOOLEAN])

\* One iteration of CommutationOffsetMeasurementHandler.check_response on
\* the response `input.response`.
OffsetDecode ==
    /\ pc = "idle"
    /\ Applied(CommutationOffsetMeasurementHandler_check_response(
                   input.response, input.expired, timeout))

NextOffsetDecode == OffsetDecode

SpecOffsetDecode == InitOffsetDecode /\ [][NextOffsetDecode]_vars

\* The eight binary digits of a byte, lowest first.
Bits8(x) == [i \in 1..8 |-> (x \div 2^(i - 1)) % 2]

\* The Python integer with the bytes b2 (highest) .. b5 (lowest).
FourByteValue(b2, b3, b4, b5) == Trim(Bits8(b5) \o Bits8(b4) \o Bits8(b3) \o Bits8(b2))

\* Values in [0, 2^32): every byte at the ends and in the middle of its range.
EdgeBytes == {0, 1, 127, 128, 255}
RoundTripValues ==
    { FourByteValue(b[1], b[2], b[3], b[4])
        : b \in EdgeBytes \X EdgeBytes \X EdgeBytes \X EdgeBytes }

InitRoundTrip ==
    InitFunction("OpenLoopFieldModeHandler", [b1 : 0..6, value : RoundTripValues])

\* A setter of OpenLoopFieldModeHandler builds the command for `input.value`;
\* a reply with the command's bytes 2..5 is decoded with the rule of the
\* 32-bit replies.
RoundTrip ==
    /\ pc = "idle"
    /\ LET command == set_open_loop_parameter(input.b1, input.value)
       IN Applied([command |-> command,
                   decoded |-> Decode32(Resp5(COMPLETED_NOERROR_WITHREPLY, command[2],
                                              command[3], command[4], command[5]))])

NextRoundTrip == RoundTrip

SpecRoundTrip == InitRoundTrip /\ [][NextRoundTrip]_vars

----------------------------------------------------------------------------
(* profiler_helpers.py: numbers *)
(*                                                                         *)
(* `/` of Python gives a float.  The ratios of the model are powers of two *)
(* and the values are small, so every float of the handlers is an exact    *)
(* fraction: a number is the pair <<numerator, denominator>> in lowest     *)
(* terms with a positive denominator.                                      *)

RECURSIVE Gcd(_, _)
Gcd(a, b) == IF b = 0 THEN a ELSE Gcd(b, a % b)

Abs(x) == IF x < 0 THEN -x ELSE x

Num(n, d) ==
    LET g == Gcd(Abs(n), Abs(d))
    IN IF d < 0 THEN <<(-n) \div g, (-d) \div g>> ELSE <<n \div g, d \div g>>

\* An int as a number.
Whole(n) == <<n, 1>>

\* a * b
Mul(a, b) == Num(a[1] * b[1], a[2] * b[2])

\* a / b, for b # 0
TrueDiv(a, b) == Num(a[1] * b[2], a[2] * b[1])

\* int(a): the fractional part is discarded, towards zero
int(a) == IF a[1] < 0 THEN -((-a[1]) \div a[2]) ELSE a[1] \div a[2]

\* a <= b
Leq(a, b) == a[1] * b[2] <= b[1] * a[2]

\* Optional values: None or the value.
Some(x) == <<x>>
Val(o) == o[1]

\* time.time() and the durations are in ms.
Seconds(s) == 1000 * s

\* The default rel_tol of math.isclose is 1e-09.
RelTolInverse == 1000000000

\* math.isclose(a, b, abs_tol=abs_tol) for integers a, b and a number abs_tol
\* that is not negative:
\*   abs(a - b) <= max(rel_tol * max(abs(a), abs(b)), abs_tol)
isclose(a, b, abs_tol) ==
    LET larger == IF Abs(a) < Abs(b) THEN Abs(b) ELSE Abs(a)
    IN \/ Abs(a - b) <= larger \div RelTolInverse
       \/ Leq(Whole(Abs(a - b)), abs_tol)

----------------------------------------------------------------------------
(* profiler_helpers.py: VelocityParametersFrame *)

MOTOR_SHAFT_FRAME == 0
DRIVE_SHAFT_FRAME == 1
VELOCITY_CONTROL_FRAME == 2
POSITION_CONTROL_FRAME == 3

VelocityParametersFrame ==
    {MOTOR_SHAFT_FRAME, DRIVE_SHAFT_FRAME, VELOCITY_CONTROL_FRAME, POSITION_CONTROL_FRAME}

Supervisors == {"TorqueProfileHandler", "VelocityProfileHandler", "ProfilePositionHandler"}

\* One call of the object dictionary or of the state control by a handler.
Call(name, arg) == [call |-> name, arg |-> arg]

\* How an operation of a handler ends.
Ended(op, k, msg, value) == Outcome(op, k, msg, value, "")
ReturnedNone(op) == Ended(op, "return", "None", 0)

----------------------------------------------------------------------------
(* TorqueProfileHandler *)

\* __init__ (the attribute stabilization_time does not exist yet)
TorqueProfileHandler_init ==
    [ torque_slope |-> 0,
      target_torque |-> 0,
      target_tolerance |-> 0,
      profiler_timeout |-> None,
      stabilization_duration |-> None ]

\* set_profiler_configuration: the fields after the call, and its calls.
TorqueProfileHandler_set_profiler_configuration(s, torque_slope, target_tolerance, profiler_timeout, stabilization_duration) ==
    [ sup |-> [s EXCEPT !.torque_slope = torque_slope,
                        !.target_tolerance = target_tolerance,
                        !.profiler_timeout =
                            IF profiler_timeout # None THEN profiler_timeout ELSE @,
                        !.stabilization_duration =
                            IF stabilization_duration # None THEN stabilization_duration ELSE @],
      calls |-> <<Call("torque_slope", torque_slope)>>,
      outcome |-> ReturnedNone("set_profiler_configuration") ]

\* set_target_torque
TorqueProfileHandler_set_target_torque(s, target_torque) ==
    [ sup |-> [s EXCEPT !.target_torque = target_torque],
      calls |-> <<Call("target_torque", target_torque)>>,
      outcome |-> ReturnedNone("set_target_torque") ]

\* is_target_reached at the time t, the device's torque demand being d
TorqueProfileHandler_is_target_reached(s, t, d) ==
    LET calls == <<Call("torque_demand", d)>>
        op == "is_target_reached"
    IN IF isclose(d, s.target_torque, Whole(int(Whole(s.target_tolerance))))
       THEN IF "stabilization_time" \notin DOMAIN s
            THEN [sup |-> s, calls |-> calls,
                  outcome |-> Ended(op, "AttributeError", "stabilization_time", 0)]
            ELSE IF t > s.stabilization_time
            THEN [sup |-> s, calls |-> calls, outcome |-> Ended(op, "return", "True", 1)]
            ELSE [sup |-> s, calls |-> calls, outcome |-> Ended(op, "return", "False", 0)]
       ELSE IF s.stabilization_duration = None
            THEN [sup |-> s, calls |-> calls,
                  outcome |-> Ended(op, "TypeError", "stabilization_duration", 0)]
            ELSE [sup |-> [f \in DOMAIN s \cup {"stabilization_time"} |->
                              IF f = "stabilization_time"
                              THEN t + Val(s.stabilization_duration) ELSE s[f]],
                  calls |-> calls, outcome |-> Ended(op, "return", "False", 0)]

----------------------------------------------------------------------------
(* VelocityProfileHandler *)

DEFAULT_PROFILER_TIMEOUT == Seconds(20)
DEFAULT_STABILIZATION_DURATION == Seconds(2)

\* __init__ on a device with the SI factor si, the tachometer ratio tacho,
\* the gear ratio gear and the gearbox ratio gearbox
VelocityProfileHandler_init(si, tacho, gear, gearbox) ==
    [ si_unit_scaling_factor |-> si,
      tachometer_ratio_factor |-> tacho,
      gear_ratio_factor |-> gear,
      gearbox_ratio |-> gearbox,
      acceleration |-> Whole(0),
      deceleration |-> Whole(0),
      target_tolerance |-> Whole(0),
      profiler_timeout |-> DEFAULT_PROFILER_TIMEOUT,
      stabilization_duration |-> DEFAULT_STABILIZATION_DURATION,
      stabilization_time |-> None,
      target_velocity |-> 0,
      configured_frame |-> None,
      configured_frame_to_velocity_control_frame |-> Whole(0) ]

\* The factor from the configured frame to the velocity control frame
\* (lines 164-175); it stays as it is for a frame that is none of the four.
VelocityFrameFactor(s, frame) ==
    IF frame = DRIVE_SHAFT_FRAME
    THEN TrueDiv(Whole(s.gearbox_ratio), Whole(s.tachometer_ratio_factor))
    ELSE IF frame = MOTOR_SHAFT_FRAME
    THEN TrueDiv(Whole(1), Whole(s.tachometer_ratio_factor))
    ELSE IF frame = VELOCITY_CONTROL_FRAME THEN Whole(1)
    ELSE IF frame = POSITION_CONTROL_FRAME
    THEN TrueDiv(Whole(s.gear_ratio_factor), Whole(s.tachometer_ratio_factor))
    ELSE s.configured_frame_to_velocity_control_frame

\* set_profiler_configuration; profiler_timeout and stabilization_duration
\* are None or Some(ms).
VelocityProfileHandler_set_profiler_configuration(s, frame, acceleration, deceleration, target_tolerance, profiler_timeout, stabilization_duration) ==
    LET factor == VelocityFrameFactor(s, frame)
        si == Whole(s.si_unit_scaling_factor)
    IN [ sup |-> [s EXCEPT !.configured_frame = Some(frame),
                           !.configured_frame_to_velocity_control_frame = factor,
                           !.target_tolerance = Mul(target_tolerance, factor),
                           !.acceleration = Mul(acceleration, factor),
                           !.deceleration = Mul(deceleration, factor),
                           !.profiler_timeout =
                               IF profiler_timeout # None THEN Val(profiler_timeout) ELSE @,
                           !.stabilization_duration =
                               IF stabilization_duration # None
                               THEN Val(stabilization_duration) ELSE @,
                           !.target_velocity = 0],
         calls |-> << Call("profile_acceleration", int(Mul(Mul(acceleration, factor), si))),
                      Call("profile_deceleration", int(Mul(Mul(deceleration, factor), si))),
                      Call("target_velocity", 0) >>,
         outcome |-> ReturnedNone("set_profiler_configuration") ]

MutSetTargetVelocityScaleFirst(s, t, target_velocity) ==
    LET v == int(Mul(Mul(target_velocity, s.configured_frame_to_velocity_control_frame),
                     Whole(s.si_unit_scaling_factor)))
    IN [ sup |-> [s EXCEPT !.target_velocity = v,
                           !.stabilization_time = Some(t + s.stabilization_duration)],
         calls |-> <<Call("target_velocity", v)>>,
         outcome |-> ReturnedNone("set_target_velocity") ]
\* set_target_velocity at the time t
VelocityProfileHandler_set_target_velocity(s, t, target_velocity) ==
    LET v == int(Mul(target_velocity, s.configured_frame_to_velocity_control_frame))
    IN [ sup |-> [s EXCEPT !.target_velocity = v,
                           !.stabilization_time = Some(t + s.stabilization_duration)],
         calls |-> <<Call("target_velocity", v * s.si_unit_scaling_factor)>>,
         outcome |-> ReturnedNone("set_target_velocity") ]

MutVelocityReachedAtOnce(s, t, d) ==
    [ sup |-> s, calls |-> <<Call("velocity_demand_value", d)>>,
      outcome |-> IF isclose(d, s.target_velocity * s.si_unit_scaling_factor,
                             Whole(int(Mul(s.target_tolerance, Whole(s.si_unit_scaling_factor)))))
                  THEN Ended("is_target_reached", "return", "True", 1)
                  ELSE Ended("is_target_reached", "return", "False", 0) ]
MutVelocityRearmsAtOnce(s, t, d) ==
    LET calls == <<Call("velocity_demand_value", d)>>
        op == "is_target_reached"
    IN IF isclose(d, s.target_velocity * s.si_unit_scaling_factor,
                  Whole(int(Mul(s.target_tolerance, Whole(s.si_unit_scaling_factor)))))
       THEN IF t > Val(s.stabilization_time)
            THEN [sup |-> s, calls |-> calls, outcome |-> Ended(op, "return", "True", 1)]
            ELSE [sup |-> s, calls |-> calls, outcome |-> Ended(op, "return", "False", 0)]
       ELSE [sup |-> [s EXCEPT !.stabilization_time = Some(t)],
             calls |-> calls, outcome |-> Ended(op, "return", "False", 0)]
\* is_target_reached at the time t, the device's velocity demand being d
VelocityProfileHandler_is_target_reached(s, t, d) ==
    LET calls == <<Call("velocity_demand_value", d)>>
        op == "is_target_reached"
    IN IF isclose(d, s.target_velocity * s.si_unit_scaling_factor,
                  Whole(int(Mul(s.target_tolerance, Whole(s.si_unit_scaling_factor)))))
       THEN IF s.stabilization_time = None
            THEN [sup |-> s, calls |-> calls,
                  outcome |-> Ended(op, "TypeError", "stabilization_time", 0)]
            ELSE IF t > Val(s.stabilization_time)
            THEN [sup |-> s, calls |-> calls, outcome |-> Ended(op, "return", "True", 1)]
            ELSE [sup |-> s, calls |-> calls, outcome |-> Ended(op, "return", "False", 0)]
       ELSE [sup |-> [s EXCEPT !.stabilization_time = Some(t + s.stabilization_duration)],
             calls |-> calls, outcome |-> Ended(op, "return", "False", 0)]

----------------------------------------------------------------------------
(* ProfilePositionHandler *)

DEFAULT_TARGET_TOLERANCE == 30

\* time.sleep(0.010) of start_trajectory, in ms
SettleDelay == 10

ProfilePositionHandler_init(si, tacho, gear, gearbox) ==
    [ si_unit_scaling_factor |-> si,
      tachometer_ratio_factor |-> tacho,
      gear_ratio_factor |-> gear,
      gearbox_ratio |-> gearbox,
      acceleration |-> Whole(0),
      deceleration |-> Whole(0),
      max_velocity |-> Whole(0),
      target_tolerance |-> DEFAULT_TARGET_TOLERANCE,
      profiler_timeout |-> DEFAULT_PROFILER_TIMEOUT,
      stabilization_duration |-> DEFAULT_STABILIZATION_DURATION,
      stabilization_time |-> None,
      target_position |-> None,
      configured_frame |-> None,
      configured_frame_to_position_control_frame |-> Whole(0) ]

MutPositionFrameFactorAsVelocity(s, frame) ==
    IF frame = DRIVE_SHAFT_FRAME
    THEN TrueDiv(Whole(s.gearbox_ratio), Whole(s.tachometer_ratio_factor))
    ELSE IF frame = MOTOR_SHAFT_FRAME
    THEN TrueDiv(Whole(1), Whole(s.tachometer_ratio_factor))
    ELSE IF frame = VELOCITY_CONTROL_FRAME THEN Whole(1)
    ELSE IF frame = POSITION_CONTROL_FRAME
    THEN TrueDiv(Whole(s.gear_ratio_factor), Whole(s.tachometer_ratio_factor))
    ELSE s.configured_frame_to_position_control_frame
\* The factor from the configured frame to the position control frame
\* (lines 324-335); it stays as it is for a frame that is none of the four.
PositionFrameFactor(s, frame) ==
    IF frame = DRIVE_SHAFT_FRAME
    THEN TrueDiv(Whole(s.gearbox_ratio), Whole(s.gear_ratio_factor))
    ELSE IF frame = MOTOR_SHAFT_FRAME
    THEN TrueDiv(Whole(1), Whole(s.gear_ratio_factor))
    ELSE IF frame = POSITION_CONTROL_FRAME THEN Whole(1)
    ELSE IF frame = VELOCITY_CONTROL_FRAME
    THEN TrueDiv(Whole(s.tachometer_ratio_factor), Whole(s.gear_ratio_factor))
    ELSE s.configured_frame_to_position_control_frame

\* set_profiler_configuration; target_tolerance, profiler_timeout and
\* stabilization_duration are None or Some(value).
ProfilePositionHandler_set_profiler_configuration(s, frame, acceleration, deceleration, max_velocity, target_tolerance, profiler_timeout, stabilization_duration) ==
    LET factor == PositionFrameFactor(s, frame)
        si == Whole(s.si_unit_scaling_factor)
    IN [ sup |-> [s EXCEPT !.configured_frame = Some(frame),
                           !.configured_frame_to_position_control_frame = factor,
                           !.acceleration = Mul(acceleration, factor),
                           !.deceleration = Mul(deceleration, factor),
                           !.max_velocity = Mul(max_velocity, factor),
                           !.target_tolerance =
                               IF target_tolerance # None THEN Val(target_tolerance) ELSE @,
                           !.profiler_timeout =
                               IF profiler_timeout # None THEN Val(profiler_timeout) ELSE @,
                           !.stabilization_duration =
                               IF stabilization_duration # None
                               THEN Val(stabilization_duration) ELSE @],
         calls |-> << Call("profile_acceleration", int(Mul(Mul(acceleration, factor), si))),
                      Call("profile_deceleration", int(Mul(Mul(deceleration, factor), si))),
                      Call("profile_velocity", int(Mul(Mul(max_velocity, factor), si))) >>,
         outcome |-> ReturnedNone("set_profiler_configuration") ]

MutStartTrajectoryPulseFirst(s, t, target_position) ==
    [ sup |-> [s EXCEPT !.target_position = Some(target_position),
                        !.stabilization_time =
                            Some(t + SettleDelay + s.stabilization_duration)],
      calls |-> << Call("pp_start_next_position_now", 0),
                   Call("target_position", target_position),
                   Call("sleep", SettleDelay),
                   Call("pp_reset_bits", 0) >>,
      outcome |-> ReturnedNone("start_trajectory") ]
\* start_trajectory called at the time t; it returns at t + SettleDelay.
ProfilePositionHandler_start_trajectory(s, t, target_position) ==
    [ sup |-> [s EXCEPT !.target_position = Some(target_position),
                        !.stabilization_time =
                            Some(t + SettleDelay + s.stabilization_duration)],
      calls |-> << Call("target_position", target_position),
                   Call("pp_start_next_position_now", 0),
                   Call("sleep", SettleDelay),
                   Call("pp_reset_bits", 0) >>,
      outcome |-> ReturnedNone("start_trajectory") ]

MutPositionReachedAtOnce(s, t, expected_position, d) ==
    IF s.target_position = None
    THEN [sup |-> s, calls |-> <<>>,
          outcome |-> Ended("is_target_reached", "Failed", "no_trajectory", 0)]
    ELSE [ sup |-> s, calls |-> <<Call("position_demand_internal_value", d)>>,
           outcome |-> IF isclose(d, IF expected_position = None THEN Val(s.target_position)
                                     ELSE Val(expected_position),
                                  Whole(s.target_tolerance))
                       THEN Ended("is_target_reached", "return", "True", 1)
                       ELSE Ended("is_target_reached", "return", "False", 0) ]
\* is_target_reached(expected_position) at the time t, the device's internal
\* position demand being d; expected_position is None or Some(ticks).
ProfilePositionHandler_is_target_reached(s, t, expected_position, d) ==
    LET calls == <<Call("position_demand_internal_value", d)>>
        op == "is_target_reached"
        expected_position_internal ==
            IF expected_position = None THEN Val(s.target_position)
            ELSE Val(expected_position)
    IN IF s.target_position = None
       THEN [sup |-> s, calls |-> <<>>, outcome |-> Ended(op, "Failed", "no_trajectory", 0)]
       ELSE IF isclose(d, expected_position_internal, Whole(s.target_tolerance))
       THEN IF t > Val(s.stabilization_time)
            THEN [sup |-> s, calls |-> calls, outcome |-> Ended(op, "return", "True", 1)]
            ELSE [sup |-> s, calls |-> calls, outcome |-> Ended(op, "return", "False", 0)]
       ELSE [sup |-> [s EXCEPT !.stabilization_time = Some(t + s.stabilization_duration)],
             calls |-> calls, outcome |-> Ended(op, "return", "False", 0)]

----------------------------------------------------------------------------
(* The go_to loops *)

\* pytest.fail of go_to_velocity and go_to_position when profiler_timeout has
\* elapsed; `reported` are the values the message is formatted with.
FailProfileTimeout(op, reported) ==
    [ op |-> op, kind |-> "Failed", msg |-> "profile_timeout", value |-> 0, name |-> "",
      reported |-> reported ]

\* One iteration of `while True` of go_to_velocity (lines 249-255) entered at
\* the time t0 with the local `timeout`; d is the demand is_target_reached
\* reads and d2 the one read for the message.
VelocityProfileHandler_go_to_velocity_iteration(s, t0, local_timeout, d, d2) ==
    LET t == t0 + PollInterval
        op == "go_to_velocity"
        r == VelocityProfileHandler_is_target_reached(s, t, d)
        factor == s.configured_frame_to_velocity_control_frame
    IN IF r.outcome.kind # "return" THEN [r EXCEPT !.outcome.op = op]
       ELSE IF r.outcome.msg = "True" THEN [r EXCEPT !.outcome = ReturnedNone(op)]
       ELSE IF t > local_timeout
       THEN [ sup |-> r.sup,
              calls |-> Append(r.calls, Call("velocity_demand_value", d2)),
              outcome |->
                  IF factor = Whole(0) THEN Ended(op, "ZeroDivisionError", "factor", 0)
                  ELSE FailProfileTimeout(op,
                          << TrueDiv(Whole(r.sup.target_velocity), factor),
                             TrueDiv(TrueDiv(Whole(d2), Whole(s.si_unit_scaling_factor)),
                                     factor) >>) ]
       ELSE [r EXCEPT !.outcome = Ended(op, "none", "pass", 0)]

MutGoToPositionNoDeadline(s, t0, local_timeout, expected_position, d, d2) ==
    LET r == ProfilePositionHandler_is_target_reached(s, t0 + PollInterval,
                                                      expected_position, d)
    IN IF r.outcome.kind # "return" THEN [r EXCEPT !.outcome.op = "go_to_position"]
       ELSE IF r.outcome.msg = "True"
       THEN [r EXCEPT !.outcome = ReturnedNone("go_to_position")]
       ELSE [r EXCEPT !.outcome = Ended("go_to_position", "none", "pass", 0)]
MutGoToPositionRetries(s, t0, local_timeout, expected_position, d, d2) ==
    LET t == t0 + PollInterval
        op == "go_to_position"
        r == ProfilePositionHandler_is_target_reached(s, t, expected_position, d)
    IN IF r.outcome.kind # "return" THEN [r EXCEPT !.outcome.op = op]
       ELSE IF r.outcome.msg = "True" THEN [r EXCEPT !.outcome = ReturnedNone(op)]
       ELSE IF t > local_timeout
       THEN [ sup |-> r.sup,
              calls |-> Append(r.calls, Call("position_demand_internal_value", d2)),
              outcome |-> FailProfileTimeout(op, <<expected_position, Some(d2),
                                                   r.sup.target_position>>) ]
       ELSE [ sup |-> r.sup,
              calls |-> Append(r.calls, Call("target_position", Val(s.target_position))),
              outcome |-> Ended(op, "none", "pass", 0) ]
\* One iteration of `while True` of go_to_position (lines 435-442).
ProfilePositionHandler_go_to_position_iteration(s, t0, local_timeout, expected_position, d, d2) ==
    LET t == t0 + PollInterval
        op == "go_to_position"
        r == ProfilePositionHandler_is_target_reached(s, t, expected_position, d)
    IN IF r.outcome.kind # "return" THEN [r EXCEPT !.outcome.op = op]
       ELSE IF r.outcome.msg = "True" THEN [r EXCEPT !.outcome = ReturnedNone(op)]
       ELSE IF t > local_timeout
       THEN [ sup |-> r.sup,
              calls |-> Append(r.calls, Call("position_demand_internal_value", d2)),
              outcome |-> FailProfileTimeout(op, <<expected_position, Some(d2),
                                                   r.sup.target_position>>) ]
       ELSE [r EXCEPT !.outcome = Ended(op, "none", "pass", 0)]

----------------------------------------------------------------------------
(* One profiler handler and the device *)

\* Latest time the profiler specifications follow, in ms.
MaxProfilerTime == 60

\* The operation ended as `r` says.
Finish(r) ==
    /\ sup' = r.sup
    /\ od_calls' = r.calls
    /\ outcome' = r.outcome

\* What the handlers never touch.
ProfilerFrame ==
    UNCHANGED <<kind, timeout, current_command, od_response, response, cmd_writes,
                writes_made, term_seen, output>>

TorqueSetProfilerConfiguration(torque_slope, target_tolerance, profiler_timeout, stabilization_duration) ==
    /\ pc = "idle"
    /\ kind = "TorqueProfileHandler"
    /\ Finish(TorqueProfileHandler_set_profiler_configuration(
                 sup, torque_slope, target_tolerance, profiler_timeout,
                 stabilization_duration))
    /\ input' = [torque_slope |-> torque_slope, target_tolerance |-> target_tolerance]
    /\ polls' = <<>>
    /\ UNCHANGED <<now, pc, deadline, call_start>>
    /\ ProfilerFrame

VelocitySetProfilerConfiguration(frame, acceleration, deceleration, target_tolerance, profiler_timeout, stabilization_duration) ==
    /\ pc = "idle"
    /\ kind = "VelocityProfileHandler"
    /\ Finish(VelocityProfileHandler_set_profiler_configuration(
                 sup, frame, acceleration, deceleration, target_tolerance,
                 profiler_timeout, stabilization_duration))
    /\ input' = [frame |-> frame, acceleration |-> acceleration,
                 deceleration |-> deceleration, target_tolerance |-> target_tolerance]
    /\ polls' = <<>>
    /\ UNCHANGED <<now, pc, deadline, call_start>>
    /\ ProfilerFrame

PositionSetProfilerConfiguration(frame, acceleration, deceleration, max_velocity, target_tolerance, profiler_timeout, stabilization_duration) ==
    /\ pc = "idle"
    /\ kind = "ProfilePositionHandler"
    /\ Finish(ProfilePositionHandler_set_profiler_configuration(
                 sup, frame, acceleration, deceleration, max_velocity, target_tolerance,
                 profiler_timeout, stabilization_duration))
    /\ input' = [frame |-> frame, acceleration |-> acceleration,
                 deceleration |-> deceleration, max_velocity |-> max_velocity]
    /\ polls' = <<>>
    /\ UNCHANGED <<now, pc, deadline, call_start>>
    /\ ProfilerFrame

SetTargetTorque(target_torque) ==
    /\ pc = "idle"
    /\ kind = "TorqueProfileHandler"
    /\ Finish(TorqueProfileHandler_set_target_torque(sup, target_torque))
    /\ input' = [target_torque |-> target_torque]
    /\ polls' = <<>>
    /\ UNCHANGED <<now, pc, deadline, call_start>>
    /\ ProfilerFrame

SetTargetVelocity(target_velocity) ==
    /\ pc = "idle"
    /\ kind = "VelocityProfileHandler"
    /\ Finish(VelocityProfileHandler_set_target_velocity(sup, now, target_velocity))
    /\ input' = [target_velocity |-> target_velocity]
    /\ polls' = <<>>
    /\ UNCHANGED <<now, pc, deadline, call_start>>
    /\ ProfilerFrame

StartTrajectory(target_position) ==
    /\ pc = "idle"
    /\ kind = "ProfilePositionHandler"
    /\ now + SettleDelay <= MaxProfilerTime
    /\ Finish(ProfilePositionHandler_start_trajectory(sup, now, target_position))
    /\ now' = now + SettleDelay
    /\ input' = [target_position |-> target_position]
    /\ polls' = <<>>
    /\ UNCHANGED <<pc, deadline, call_start>>
    /\ ProfilerFrame

\* is_target_reached called by the test, the device's demand being d.
TorqueIsTargetReached(d) ==
    /\ pc = "idle"
    /\ kind = "TorqueProfileHandler"
    /\ Finish(TorqueProfileHandler_is_target_reached(sup, now, d))
    /\ input' = None
    /\ polls' = <<>>
    /\ UNCHANGED <<now, pc, deadline, call_start>>
    /\ ProfilerFrame

VelocityIsTargetReached(d) ==
    /\ pc = "idle"
    /\ kind = "VelocityProfileHandler"
    /\ Finish(VelocityProfileHandler_is_target_reached(sup, now, d))
    /\ input' = None
    /\ polls' = <<>>
    /\ UNCHANGED <<now, pc, deadline, call_start>>
    /\ ProfilerFrame

PositionIsTargetReached(expected_position, d) ==
    /\ pc = "idle"
    /\ kind = "ProfilePositionHandler"
    /\ Finish(ProfilePositionHandler_is_target_reached(sup, now, expected_position, d))
    /\ input' = [expected_position |-> expected_position]
    /\ polls' = <<>>
    /\ UNCHANGED <<now, pc, deadline, call_start>>
    /\ ProfilerFrame

\* The test lets time pass between two calls: time.sleep(0.010).
Sleep ==
    /\ pc = "idle"
    /\ kind \in Supervisors
    /\ now + PollInterval <= MaxProfilerTime
    /\ now' = now + PollInterval
    /\ outcome' = ReturnedNone("sleep")
    /\ od_calls' = <<>>
    /\ polls' = <<>>
    /\ UNCHANGED <<sup, input, pc, deadline, call_start>>
    /\ ProfilerFrame

\* go_to_velocity up to its loop: set_target_velocity and
\* timeout = time.time() + self.profiler_timeout.  The call is followed while
\* its loop ends within MaxProfilerTime.
GoToVelocity(target_velocity) ==
    /\ pc = "idle"
    /\ kind = "VelocityProfileHandler"
    /\ now + sup.profiler_timeout + PollInterval <= MaxProfilerTime
    /\ LET r == VelocityProfileHandler_set_target_velocity(sup, now, target_velocity)
       IN Finish([r EXCEPT !.outcome = Ended("go_to_velocity", "none", "pass", 0)])
    /\ deadline' = now + sup.profiler_timeout
    /\ call_start' = now
    /\ pc' = "going"
    /\ input' = [target_velocity |-> target_velocity]
    /\ polls' = <<>>
    /\ UNCHANGED now
    /\ ProfilerFrame

\* go_to_position up to its loop: start_trajectory and
\* timeout = time.time() + self.profiler_timeout.
GoToPosition(target_position, expected_position) ==
    /\ pc = "idle"
    /\ kind = "ProfilePositionHandler"
    /\ now + SettleDelay + sup.profiler_timeout + PollInterval <= MaxProfilerTime
    /\ LET r == ProfilePositionHandler_start_trajectory(sup, now, target_position)
       IN Finish([r EXCEPT !.outcome = Ended("go_to_position", "none", "pass", 0)])
    /\ now' = now + SettleDelay
    /\ deadline' = now' + sup.profiler_timeout
    /\ call_start' = now
    /\ pc' = "going"
    /\ input' = [target_position |-> target_position,
                 expected_position |-> expected_position]
    /\ polls' = <<>>
    /\ ProfilerFrame

\* One iteration of the loop of go_to_velocity or go_to_position: the sleep,
\* is_target_reached reading the demand d, and the deadline (d2 is the
\* demand read for the failure message).
GoToPoll(d, d2) ==
    /\ pc = "going"
    /\ Finish(IF kind = "VelocityProfileHandler"
              THEN VelocityProfileHandler_go_to_velocity_iteration(sup, now, deadline, d, d2)
              ELSE ProfilePositionHandler_go_to_position_iteration(
                       sup, now, deadline, input.expected_position, d, d2))
    /\ now' = now + PollInterval
    /\ pc' = IF outcome'.kind = "none" THEN "going" ELSE "idle"
    /\ polls' = Append(polls, [t |-> now', d |-> d])
    /\ UNCHANGED <<input, deadline, call_start>>
    /\ ProfilerFrame

\* The handler of class k constructed on the device `dev`.
NewHandler(k, dev) ==
    IF k = "TorqueProfileHandler" THEN TorqueProfileHandler_init
    ELSE IF k = "VelocityProfileHandler"
    THEN VelocityProfileHandler_init(dev.si, dev.tacho, dev.gear, dev.gearbox)
    ELSE ProfilePositionHandler_init(dev.si, dev.tacho, dev.gear, dev.gearbox)

InitHandler(kinds, devices) ==
    /\ kind \in kinds
    /\ \E dev \in devices : sup = NewHandler(kind, dev)
    /\ timeout = 0
    /\ current_command = [h \in Channels |-> None]
    /\ od_response = None
    /\ response = None
    /\ outcome = NoOutcome
    /\ od_calls = <<>>
    /\ cmd_writes = [h \in Channels |-> 0]
    /\ writes_made = [h \in Channels |-> 0]
    /\ term_seen = [h \in Channels |-> FALSE]
    /\ now = 0
    /\ pc = "idle"
    /\ deadline = 0
    /\ call_start = 0
    /\ input = None
    /\ output = None
    /\ polls = <<>>

\* The device of the profiler specification: SI factor 10 and a gearbox of
\* ratio 2 between the motor and both encoders.
ProfilerDevices == { [si |-> 10, tacho |-> 2, gear |-> 2, gearbox |-> 2] }

\* The arguments the test gives, and the demand values the device shows: at
\* the target, at the edge of the tolerance, just outside and far away.
\* <<target_tolerance, profiler_timeout, stabilization_duration>>: the optional
\* ones left out or given, in ms.
TimingArguments ==
    { <<None, None, None>>, <<None, Some(40), Some(0)>>, <<None, Some(40), Some(25)>>,
      <<Some(0), Some(40), Some(25)>> }
TorqueDemands == {0, 48, 50, 53}
VelocityDemands == {0, 484, 485, 500, 516}
PositionDemands == {500, 970, 1000, 1031}
ExpectedPositions == {None, Some(990)}
\* The demand values read for the failure message.
LastDemands == {0, 1000}

InitProfiler == InitHandler(Supervisors, ProfilerDevices)

\* An iteration of the loop, whatever the device shows.
GoToPollStep ==
    \E d \in (IF kind = "VelocityProfileHandler" THEN VelocityDemands ELSE PositionDemands),
       d2 \in LastDemands : GoToPoll(d, d2)

\* The same with a demand at the edge of the tolerance or just outside.
GoToPollNearTarget ==
    \E d \in (IF kind = "VelocityProfileHandler" THEN {485, 516} ELSE {970, 1031}),
       d2 \in LastDemands : GoToPoll(d, d2)

NextProfiler ==
    \/ \E a \in TimingArguments :
          TorqueSetProfilerConfiguration(5, IF a[1] = None THEN 2 ELSE Val(a[1]), a[2], a[3])
    \/ \E a \in TimingArguments :
          VelocitySetProfilerConfiguration(MOTOR_SHAFT_FRAME, Whole(3), Whole(5),
                                           IF a[1] = None THEN Whole(3) ELSE Whole(Val(a[1])),
                                           a[2], a[3])
    \/ \E a \in TimingArguments :
          PositionSetProfilerConfiguration(MOTOR_SHAFT_FRAME, Whole(3), Whole(5), Whole(7),
                                           a[1], a[2], a[3])
    \/ SetTargetTorque(50)
    \/ SetTargetVelocity(Whole(100))
    \/ StartTrajectory(1000)
    \/ \E d \in TorqueDemands : TorqueIsTargetReached(d)
    \/ \E d \in VelocityDemands : VelocityIsTargetReached(d)
    \/ \E e \in ExpectedPositions, d \in PositionDemands : PositionIsTargetReached(e, d)
    \/ Sleep
    \/ GoToVelocity(Whole(100))
    \/ \E e \in ExpectedPositions : GoToPosition(1000, e)
    \/ GoToPollStep

SpecProfiler == InitProfiler /\ [][NextProfiler]_vars

\* The go_to calls of a configured velocity or position handler, with the
\* time going on while a loop runs: each time.sleep(0.010) of the loop returns.
InitGoTo == InitHandler({"VelocityProfileHandler", "ProfilePositionHandler"}, ProfilerDevices)

NextGoTo ==
    \/ \E a \in TimingArguments :
          VelocitySetProfilerConfiguration(MOTOR_SHAFT_FRAME, Whole(3), Whole(5),
                                           IF a[1] = None THEN Whole(3) ELSE Whole(Val(a[1])),
                                           a[2], a[3])
    \/ \E a \in TimingArguments :
          PositionSetProfilerConfiguration(MOTOR_SHAFT_FRAME, Whole(3), Whole(5), Whole(7),
                                           a[1], a[2], a[3])
    \/ Sleep
    \/ GoToVelocity(Whole(100))
    \/ \E e \in ExpectedPositions : GoToPosition(1000, e)
    \/ GoToPollNearTarget

SpecGoTo == InitGoTo /\ [][NextGoTo]_vars /\ WF_vars(GoToPollNearTarget)

\* The runs in which no target is ever set: the handler is configured and
\* is_target_reached is called, with time passing in between.
NextNoTarget ==
    \/ \E a \in TimingArguments :
          TorqueSetProfilerConfiguration(5, IF a[1] = None THEN 2 ELSE Val(a[1]), a[2], a[3])
    \/ \E a \in TimingArguments :
          VelocitySetProfilerConfiguration(MOTOR_SHAFT_FRAME, Whole(3), Whole(5),
                                           IF a[1] = None THEN Whole(3) ELSE Whole(Val(a[1])),
                                           a[2], a[3])
    \/ \E a \in TimingArguments :
          PositionSetProfilerConfiguration(MOTOR_SHAFT_FRAME, Whole(3), Whole(5), Whole(7),
                                           a[1], a[2], a[3])
    \/ \E d \in TorqueDemands : TorqueIsTargetReached(d)
    \/ \E d \in VelocityDemands : VelocityIsTargetReached(d)
    \/ \E e \in ExpectedPositions, d \in PositionDemands : PositionIsTargetReached(e, d)
    \/ Sleep

SpecNoTarget == InitProfiler /\ [][NextNoTarget]_vars

----------------------------------------------------------------------------
(* The polling calls of both modules: check_response of an adapter, or the *)
(* go_to calls of a velocity or position handler                          *)

InitCore == Init \/ InitGoTo

NextCore == Next \/ NextGoTo

SpecCore == InitCore /\ [][NextCore]_vars

----------------------------------------------------------------------------
(* The conversions of the velocity and the position handler, on every     *)
(* device configuration                                                    *)

\* What get_si_unit_scaling_factor gives for the four prefixes it knows.
SiFactors == {1, 10, 100, 1000}

\* <<gearbox ratio, gear ratio, tachometer ratio>>: the gear ratio and the
\* tachometer ratio are the gearbox ratio or 1 (encoder on the motor shaft).
Ratios ==
    { <<1, 1, 1>>, <<2, 1, 1>>, <<2, 2, 1>>, <<2, 1, 2>>, <<2, 2, 2>>,
      <<4, 4, 1>>, <<4, 1, 4>>, <<4, 4, 4>> }

ConfigurationDevices ==
    { [si |-> s, tacho |-> r[3], gear |-> r[2], gearbox |-> r[1]]
        : s \in SiFactors, r \in Ratios }

\* <<acceleration, deceleration, max_velocity or target_tolerance>>
ProfileValues ==
    { <<Whole(3), Whole(5), Whole(7)>>,
      <<Whole(1000), Whole(2000), Whole(500)>>,
      <<Num(1, 2), Whole(1), Whole(9)>> }

TargetVelocities == { Whole(100), Whole(3), Whole(-3), Num(5, 2) }

InitConfiguration ==
    InitHandler({"VelocityProfileHandler", "ProfilePositionHandler"}, ConfigurationDevices)

NextConfiguration ==
    \/ \E frame \in VelocityParametersFrame, p \in ProfileValues :
          VelocitySetProfilerConfiguration(frame, p[1], p[2], p[3], None, None)
    \/ \E frame \in VelocityParametersFrame, p \in ProfileValues :
          PositionSetProfilerConfiguration(frame, p[1], p[2], p[3], None, None, None)
    \/ \E v \in TargetVelocities : SetTargetVelocity(v)

SpecConfiguration == InitConfiguration /\ [][NextConfiguration]_vars

----------------------------------------------------------------------------
(* toolbox.py: what the handlers read from the device when constructed    *)

\* SensorFunctions
COMMUTATION_AND_MOTION_CONTROL_FEEDBACK == 1
COMMUTATION_AND_MONITORING == 2
MOTION_CONTROL_FEEDBACK_ONLY == 3
COMMUTATION_ONLY == 5
POSITION == 6
COMMUTATION_AND_VELOCITY == 7

\* How a function of the toolbox ends: it returns a value (None is the
\* value of a function that falls off its end) or raises.
Ret(v) == [kind |-> "return", value |-> Some(v), msg |-> ""]
RetNone == [kind |-> "return", value |-> None, msg |-> ""]
Raise(exception, msg) == [kind |-> exception, value |-> None, msg |-> msg]

\* The SI unit velocity codes get_si_unit_scaling_factor compares with:
\* 11814656 = 0x00B44700, 4290004736 = 0xFFB44700, 4273227520 = 0xFEB44700
\* and 4256450304 = 0xFDB44700 (the highest byte is the prefix).
SiUnitVelocity(prefix) == FourByteValue(prefix, 180, 71, 0)

\* get_si_unit_scaling_factor on the object dictionary od
get_si_unit_scaling_factor(od) ==
    IF od.si_unit_velocity = Big(11814656) THEN Ret(1)
    ELSE IF od.si_unit_velocity = SiUnitVelocity(255) THEN Ret(10)
    ELSE IF od.si_unit_velocity = SiUnitVelocity(254) THEN Ret(100)
    ELSE IF od.si_unit_velocity = SiUnitVelocity(253) THEN Ret(1000)
    ELSE RetNone

MutGearboxRatioRoundsUp(od) ==
    IF od.gear_ratio_shaft_revolutions = 0 THEN Raise("ZeroDivisionError", "")
    ELSE Ret((od.gear_ratio_motor_revolutions + od.gear_ratio_shaft_revolutions - 1)
                \div od.gear_ratio_shaft_revolutions)
\* get_gearbox_ratio: motor revolutions // shaft revolutions
get_gearbox_ratio(od) ==
    IF od.gear_ratio_shaft_revolutions = 0 THEN Raise("ZeroDivisionError", "")
    ELSE Ret(od.gear_ratio_motor_revolutions \div od.gear_ratio_shaft_revolutions)

\* The loop over the sensor ports from `subindex` on: the configuration index
\* of the first port that is configured with one of `functions`, or None when
\* the loop ends.
RECURSIVE SensorPortLoop(_, _, _)
SensorPortLoop(od, functions, subindex) ==
    IF subindex >= Len(od.feedback_sensor_ports) THEN None
    ELSE LET sensor_config_index == od.feedback_sensor_ports[subindex + 1]
         IN IF sensor_config_index # 0 /\ od.parameter[sensor_config_index] \in functions
            THEN Some(sensor_config_index)
            ELSE SensorPortLoop(od, functions, subindex + 1)

\* The arguments position_control and velocity_control are "None", "False"
\* or "True": `not x` holds of the first two, x == 1 of "True", x == 0 of
\* "False".
Selections == {"None", "False", "True"}

\* selected_functions (lines 84-94)
selected_functions(position_control, velocity_control) ==
    IF position_control = "True" /\ velocity_control = "False" THEN {POSITION}
    ELSE IF position_control = "False" /\ velocity_control = "True"
    THEN {COMMUTATION_AND_VELOCITY}
    ELSE {COMMUTATION_AND_MOTION_CONTROL_FEEDBACK, MOTION_CONTROL_FEEDBACK_ONLY}
         \cup (IF velocity_control = "None" THEN {POSITION} ELSE {})
         \cup (IF position_control = "None" THEN {COMMUTATION_AND_VELOCITY} ELSE {})

MutMotionIndexLastPort(od, position_control, velocity_control) ==
    LET found == { i \in 1..Len(od.feedback_sensor_ports) :
                     /\ od.feedback_sensor_ports[i] # 0
                     /\ od.parameter[od.feedback_sensor_ports[i]]
                          \in selected_functions(position_control, velocity_control) }
    IN IF position_control # "True" /\ velocity_control # "True"
       THEN Raise("ExceptionSensorConfig", "No function was selected.")
       ELSE IF found = {} THEN Raise("ExceptionSensorConfig", "No sensor is configured")
       ELSE Ret(od.feedback_sensor_ports[CHOOSE i \in found : \A j \in found : j <= i])
\* get_motion_encoder_config_index
get_motion_encoder_config_index(od, position_control, velocity_control) ==
    IF position_control # "True" /\ velocity_control # "True"
    THEN Raise("ExceptionSensorConfig", "No function was selected.")
    ELSE LET found == SensorPortLoop(od, selected_functions(position_control,
                                                           velocity_control), 0)
         IN IF found # None THEN Ret(Val(found))
            ELSE Raise("ExceptionSensorConfig", "No sensor is configured")

\* get_commutation_encoder_config_index
get_commutation_encoder_config_index(od) ==
    LET found == SensorPortLoop(od, {COMMUTATION_AND_MOTION_CONTROL_FEEDBACK,
                                     COMMUTATION_AND_MONITORING, COMMUTATION_ONLY,
                                     COMMUTATION_AND_VELOCITY}, 0)
    IN IF found # None THEN Ret(Val(found))
       ELSE Raise("ExceptionSensorConfig", "No sensor is configured for commutation.")

\* The body shared by get_gear_ratio and get_tachometer_ratio: the gearbox
\* ratio when the motion encoder is not the commutation encoder, else 1; an
\* exception of a call goes on to the caller.
RatioFor(od, motion_encoder_index) ==
    LET commutation_encoder_index == get_commutation_encoder_config_index(od)
    IN IF motion_encoder_index.kind # "return" THEN motion_encoder_index
       ELSE IF commutation_encoder_index.kind # "return" THEN commutation_encoder_index
       ELSE IF motion_encoder_index.value # commutation_encoder_index.value
       THEN get_gearbox_ratio(od)
       ELSE Ret(1)

MutGearRatioAlwaysGearbox(od) ==
    LET position_control_encoder_index == get_motion_encoder_config_index(od, "True", "None")
        commutation_encoder_index == get_commutation_encoder_config_index(od)
    IN IF position_control_encoder_index.kind # "return" THEN position_control_encoder_index
       ELSE IF commutation_encoder_index.kind # "return" THEN commutation_encoder_index
       ELSE get_gearbox_ratio(od)
\* get_gear_ratio
get_gear_ratio(od) ==
    RatioFor(od, get_motion_encoder_config_index(od, "True", "None"))

\* get_tachometer_ratio
get_tachometer_ratio(od) ==
    RatioFor(od, get_motion_encoder_config_index(od, "None", "True"))

\* The first four assignments of VelocityProfileHandler.__init__ and of
\* ProfilePositionHandler.__init__: the values the handler stores, or the
\* exception that ends the construction.
read_device_parameters(od) ==
    LET si == get_si_unit_scaling_factor(od)
        tacho == get_tachometer_ratio(od)
        gear == get_gear_ratio(od)
        gearbox == get_gearbox_ratio(od)
    IN IF tacho.kind # "return" THEN tacho
       ELSE IF gear.kind # "return" THEN gear
       ELSE IF gearbox.kind # "return" THEN gearbox
       ELSE [ kind |-> "return", msg |-> "",
              value |-> [ si_unit_scaling_factor |-> si.value,
                          tachometer_ratio_factor |-> tacho.value,
                          gear_ratio_factor |-> gear.value,
                          gearbox_ratio |-> gearbox.value ] ]

\* A function of the toolbox was called with `args` on the device `input`.
Called(op, args, result) ==
    /\ pc = "idle"
    /\ kind = "toolbox"
    /\ output' = [op |-> op, args |-> args, result |-> result]
    /\ UNCHANGED <<kind, timeout, current_command, od_response, response, outcome,
                   od_calls, cmd_writes, writes_made, term_seen, now, pc, deadline,
                   call_start, input, profilerVars>>

GetSiUnitScalingFactor ==
    Called("get_si_unit_scaling_factor", <<>>, get_si_unit_scaling_factor(input))

GetGearboxRatio == Called("get_gearbox_ratio", <<>>, get_gearbox_ratio(input))

GetMotionEncoderConfigIndex(position_control, velocity_control) ==
    Called("get_motion_encoder_config_index", <<position_control, velocity_control>>,
           get_motion_encoder_config_index(input, position_control, velocity_control))

GetCommutationEncoderConfigIndex ==
    Called("get_commutation_encoder_config_index", <<>>,
           get_commutation_encoder_config_index(input))

GetGearRatio == Called("get_gear_ratio", <<>>, get_gear_ratio(input))

GetTachometerRatio == Called("get_tachometer_ratio", <<>>, get_tachometer_ratio(input))

\* VelocityProfileHandler(sc, od) or ProfilePositionHandler(sc, od)
NewSupervisor == Called("__init__", <<>>, read_device_parameters(input))

\* The SI unit velocity codes of the device: the four the toolbox knows, the
\* prefixes next to them (10^1 and 10^-4) and an unset object.
SiCodes ==
    {Big(0)} \cup {SiUnitVelocity(prefix) : prefix \in {0, 255, 254, 253, 1, 252}}

\* <<motor revolutions, shaft revolutions>> of the gear ratio object
Revolutions == {<<1, 1>>, <<7, 2>>, <<1, 2>>, <<50, 1>>, <<5, 0>>}

\* The sensor ports: up to three ports, each with no configuration (0) or
\* one of two configuration objects, each of them with any function.
SensorPorts == UNION {[1..n -> 0..2] : n \in 0..3}
SensorParameters == [1..2 -> 0..7]

\* The devices: every SI code and gear ratio with a commutation encoder on
\* port 1 and a motion encoder on port 2, and every sensor setup with one SI
\* code and gear ratio.
ToolboxDevices ==
    { [ si_unit_velocity |-> si,
        gear_ratio_motor_revolutions |-> r[1],
        gear_ratio_shaft_revolutions |-> r[2],
        feedback_sensor_ports |-> <<1, 2>>,
        parameter |-> <<COMMUTATION_ONLY, MOTION_CONTROL_FEEDBACK_ONLY>> ]
        : si \in SiCodes, r \in Revolutions }
    \cup
    { [ si_unit_velocity |-> SiUnitVelocity(255),
        gear_ratio_motor_revolutions |-> 7,
        gear_ratio_shaft_revolutions |-> 2,
        feedback_sensor_ports |-> ports,
        parameter |-> functions ]
        : ports \in SensorPorts, functions \in SensorParameters }

InitToolbox == InitFunction("toolbox", ToolboxDevices)

NextToolbox ==
    \/ GetSiUnitScalingFactor
    \/ GetGearboxRatio
    \/ \E p \in Selections, v \in Selections : GetMotionEncoderConfigIndex(p, v)
    \/ GetCommutationEncoderConfigIndex
    \/ GetGearRatio
    \/ GetTachometerRatio
    \/ NewSupervisor

SpecToolbox == InitToolbox /\ [][NextToolbox]_vars

----------------------------------------------------------------------------
(* Claims about the channel, checked under SpecChannel *)

\* The step is a call of OsCmdHandler.execute_command / get_response.
IsExecuteStep == outcome'.op = "execute_command"
IsGetResponseStep == outcome'.op = "get_response"

\* The object-dictionary calls of `calls` that write the command register.
CommandWrites(calls) == { i \in DOMAIN calls : calls[i].call = "os_command_command" }
ResponseReads(calls) == { i \in DOMAIN calls : calls[i].call = "os_command_response" }

\* C2: between any two command-register writes of one channel there is a
\* get_response that read a status outside the in-progress set: a write that
\* is not the channel's first follows such a read made after the previous write.
C2_OneInFlight ==
    [][ CommandWrites(od_calls') # {}
        => /\ Cardinality(CommandWrites(od_calls')) = 1
           /\ (writes_made["h1"] = 0 \/ term_seen["h1"]) ]_vars

C2_Witness ==
    /\ writes_made["h1"] = 2
    /\ CommandWrites(od_calls) # {}
    /\ current_command["h1"] # None

\* C3: for every status byte in 100..200 and for 255, get_response returns the
\* raw response of the device and leaves current_command unchanged.
C3_InProgressKeepsMarker ==
    [][ (IsGetResponseStep /\ od_response'[0] \in (100..200) \cup {255})
        => /\ outcome'.kind = "return"
           /\ response' = od_response'
           /\ current_command' = current_command ]_vars

C3_Witness ==
    /\ outcome.op = "get_response"
    /\ response[0] = 200
    /\ current_command["h1"] # None

\* C4: for every status byte outside 100..200 and other than 255 (the four
\* terminal statuses and any unrecognized value), get_response leaves
\* current_command None, also when it was None already, and the
\* execute_command that follows is accepted (it does not fail as busy and
\* its command becomes the command in flight).
C4_TerminalClearsMarker ==
    [][ /\ (IsGetResponseStep /\ od_response'[0] \notin (100..200) \cup {255})
           => (current_command'["h1"] = None /\ response' = od_response')
        /\ (IsExecuteStep /\ outcome.op = "get_response"
              /\ response[0] \notin (100..200) \cup {255})
           => (outcome'.kind # "Failed" /\ current_command'["h1"] # None) ]_vars

C4_Witness ==
    /\ outcome.op = "get_response"
    /\ response[0] = 42
    /\ writes_made["h1"] >= 1
    /\ get_active_command("h1") = None

\* C5: an accepted execute_command makes exactly one command-register write,
\* get_response makes exactly one response-register read, and a command in
\* flight was written to the device exactly once.
C5_ExactlyOneWrite ==
    /\ (outcome.op = "execute_command" /\ outcome.kind # "Failed")
          => (Cardinality(CommandWrites(od_calls)) = 1 /\ Len(od_calls) = 1)
    /\ outcome.op = "get_response"
          => (Cardinality(ResponseReads(od_calls)) = 1 /\ Len(od_calls) = 1)
    /\ current_command["h1"] # None => cmd_writes["h1"] = 1

----------------------------------------------------------------------------
(* Claims about the adapters, checked under Spec *)

\* The in-progress statuses as the protocol states them.
InProgressBytes == (100..200) \cup {255}

\* The last operation was a polling routine that has ended, at a poll that
\* read `response`.
PollingEnded == pc = "idle" /\ outcome.op = "check_response"

\* ... and it ended by returning a result or by raising the device error.
EndedOnTerminalStatus ==
    /\ PollingEnded
    /\ \/ outcome.kind = "return"
       \/ outcome.kind = "OsCommandException" /\ outcome.msg # "in_progress_timeout"

IssueOps ==
    { "start_procedure", "read_register", "write_register", "enable_mode",
      "configure_stream", "start_stream", "set_open_loop_parameter" }

\* C1: a command-issuing call of any adapter (execute_command with any
\* command the adapters build) made while current_command is not None fails
\* (busy), makes no command-register write and leaves current_command as it was.
C1_BusyExecuteFails ==
    [][ (outcome'.op \in IssueOps /\ current_command["h1"] # None)
        => /\ outcome'.kind = "Failed"
           /\ outcome'.msg = "busy"
           /\ CommandWrites(od_calls') = {}
           /\ current_command' = current_command ]_vars

C1_Witness ==
    /\ outcome.op = "set_open_loop_parameter"
    /\ outcome.kind = "Failed"
    /\ outcome.msg = "busy"
    /\ od_calls = <<>>
    /\ current_command["h1"] = List8(2, 0, 1, 2, 3, 4, 0, 0)

\* C6: when check_response has ended on a terminal status (a result or the
\* device error), the slot is free: the command-issuing call that follows is
\* accepted, and a start_procedure is written to the device.
C6_SlotFreedAfterTerminal ==
    [][ /\ EndedOnTerminalStatus' => current_command'["h1"] = None
        /\ (EndedOnTerminalStatus /\ outcome'.op \in IssueOps)
           => (outcome'.kind # "Failed" /\ current_command'["h1"] # None)
        /\ (EndedOnTerminalStatus /\ outcome'.op = "start_procedure")
           => /\ outcome'.kind = "return"
              /\ current_command'["h1"] = List8(StartProcedureOpcode[kind], 0, 0, 0, 0, 0, 0, 0)
              /\ od_calls' = <<OdWrite(current_command'["h1"])>> ]_vars

C6_Witness ==
    /\ kind = "CommutationOffsetMeasurementHandler"
    /\ outcome.op = "start_procedure"
    /\ outcome.kind = "return"
    /\ writes_made["h1"] = 2
    /\ response # None
    /\ response[0] = COMPLETED_NOERROR_WITHREPLY

\* C7: when every poll of a check_response call reads an in-progress status,
\* the call returns no value and ends with the command-timeout failure
\* (pytest.fail) no later than timeout + one poll interval after the call.
C7_TimeoutWithinBound ==
    /\ pc = "polling" => now <= call_start + timeout
    /\ (PollingEnded /\ response[0] \in InProgressBytes)
          => /\ outcome.kind = "Failed"
             /\ outcome.msg = "in_progress_timeout"
             /\ now <= call_start + timeout + 10

\* The same for every adapter but PhaseInductanceMeasurementHandler, with the
\* failure kind left open for that one: the bound on the time holds for all.
TimeoutBoundAllAdapters ==
    /\ pc = "polling" => now <= call_start + timeout
    /\ (PollingEnded /\ response[0] \in InProgressBytes)
          => /\ outcome.msg = "in_progress_timeout"
             /\ now <= call_start + timeout + 10
             /\ kind # "PhaseInductanceMeasurementHandler" => outcome.kind = "Failed"

\* The error codes an adapter knows, with their names.
KnownErrorName(k, code) ==
    CASE code = 251 -> "CMD_NOT_ALLOWED"
      [] code = 252 -> "CMD_ABORTED"
      [] code = 253 -> "CMD_TIMEOUT"
      [] code = 254 -> "UNSUPPORTED_CMD"
      [] code = 255 -> "RESERVED_FOR_EXTENSION"
      [] k = "HrdStreamingHandler" /\ code \in 0..3 ->
             <<"INITIALIZATION_ERROR", "STREAMING_ERROR", "DURATION_VALUE_ERROR",
               "DATA_INDEX_VALUE_ERROR">>[code + 1]
      [] k = "OpenPhaseDetectionHandler" /\ code \in 0..8 ->
             <<"OPEN_TERMINAL_A", "OPEN_TERMINAL_B", "OPEN_TERMINAL_C",
               "OPEN_FET_A_HIGH", "OPEN_FET_A_LOW", "OPEN_FET_B_HIGH",
               "OPEN_FET_B_LOW", "OPEN_FET_C_HIGH", "OPEN_FET_C_LOW">>[code + 1]
      [] OTHER -> "unknown"

\* C8: status error-with-reply with a code the adapter knows (251..255 for
\* all, 0..3 for HRD streaming, 0..8 for open-phase detection) ends the
\* polling routine with OsCommandException carrying the code and its name.
C8_KnownErrorCodeRaises ==
    (PollingEnded /\ response[0] = 3 /\ KnownErrorName(kind, response[2]) # "unknown")
        => /\ outcome.kind = "OsCommandException"
           /\ outcome.msg = "error_code"
           /\ outcome.value = response[2]
           /\ outcome.name = KnownErrorName(kind, response[2])

C8_Witness ==
    /\ PollingEnded
    /\ kind = "OpenPhaseDetectionHandler"
    /\ response[0] = 3
    /\ response[2] = 8
    /\ outcome.name = "OPEN_FET_C_LOW"

\* C9: status error-with-reply with a code the adapter does not know ends the
\* polling routine with the unknown-error failure (pytest.fail) carrying the
\* raw code, never with OsCommandException or a return.
C9_UnknownErrorCodeFails ==
    (PollingEnded /\ response[0] = 3 /\ KnownErrorName(kind, response[2]) = "unknown")
        => /\ outcome.kind = "Failed"
           /\ outcome.msg = "unknown_error_code"
           /\ outcome.value = response[2]

C9_Witness ==
    /\ PollingEnded
    /\ kind = "CommutationOffsetMeasurementHandler"
    /\ response[0] = 3
    /\ response[2] = 4
    /\ outcome.kind = "Failed"

\* C10: status error-no-reply (2) ends the polling routine of every adapter
\* with OsCommandException without a code.
C10_ErrorNoReplyRaises ==
    (PollingEnded /\ response[0] = 2)
        => (outcome.kind = "OsCommandException" /\ outcome.msg = "no_error_code")

\* The adapters other than the open-loop field mode and the open-phase
\* detection do raise OsCommandException on status 2.
ErrorNoReplyRaisesWhereHandled ==
    (PollingEnded /\ response[0] = 2
       /\ kind \notin {"OpenLoopFieldModeHandler", "OpenPhaseDetectionHandler"})
        => (outcome.kind = "OsCommandException" /\ outcome.msg = "no_error_code")

\* C11: for every adapter a polled success status ends the polling routine
\* with a return, never a failure: status 1 returns the decoded payload and
\* status 0 returns True.
C11_SuccessStatusReturns ==
    (PollingEnded /\ response[0] \in {COMPLETED_NOERROR_NOREPLY, COMPLETED_NOERROR_WITHREPLY})
        => /\ outcome.kind = "return"
           /\ response[0] = COMPLETED_NOERROR_NOREPLY => outcome = ReturnedTrue
           /\ response[0] = COMPLETED_NOERROR_WITHREPLY => outcome.msg = "value"

\* The adapters whose polling routine has a branch for success with reply;
\* the others have one for success without reply.
ReplyingAdapters ==
    { "EncoderRegisterCommunicationHandler", "PhaseOrderDetectionHandler",
      "CommutationOffsetMeasurementHandler", "PolePairDetectionHandler",
      "PhaseResistanceMeasurementHandler", "PhaseInductanceMeasurementHandler",
      "TorqueConstantMeasurementHandler" }

\* What the routines do: the success status an adapter has a branch for
\* returns, the other one ends in the "Not valid status" failure.
SuccessStatusByAdapter ==
    (PollingEnded /\ response[0] \in {COMPLETED_NOERROR_NOREPLY, COMPLETED_NOERROR_WITHREPLY})
        => IF (response[0] = COMPLETED_NOERROR_WITHREPLY) <=> (kind \in ReplyingAdapters)
           THEN outcome.kind = "return"
           ELSE outcome.kind = "Failed" /\ outcome.msg = "not_valid_status"

\* C12: for every adapter a polled status byte that is neither a terminal
\* status (0..3) nor in the in-progress set (100..200, 255) ends the polling
\* routine with the "Not valid status" failure (pytest.fail) carrying the
\* status, never with OsCommandException, the timeout failure or a return.
C12_UnknownStatusFails ==
    (PollingEnded /\ response[0] \notin (0..3) \cup InProgressBytes)
        => /\ outcome.kind = "Failed"
           /\ outcome.msg = "not_valid_status"
           /\ outcome.value = response[0]

C12_Witness ==
    /\ PollingEnded
    /\ kind = "CommutationOffsetMeasurementHandler"
    /\ response[0] = 201
    /\ now > deadline
    /\ outcome.kind = "Failed"
    /\ outcome.msg = "not_valid_status"

----------------------------------------------------------------------------
(* Claims about the decoding and the encoding, checked under               *)
(* SpecOffsetDecode and SpecRoundTrip                                      *)

C14_RoundTrip ==
    pc = "done"
        => /\ \A i \in 2..5 : output.command[i] \in 0..255
           /\ output.decoded = input.value

C14_Witness ==
    /\ pc = "done"
    /\ input.value = FourByteValue(255, 128, 1, 127)
    /\ output.command = List8(2, input.b1, 255, 128, 1, 127, 0, 0)
    /\ output.decoded = input.value

----------------------------------------------------------------------------
(* Claims about the conversions, checked under SpecConfiguration *)

\* The factor of the position handler as the reference-frame rule states it.
PositionFactorByRule(frame) ==
    CASE frame = POSITION_CONTROL_FRAME -> Whole(1)
      [] frame = MOTOR_SHAFT_FRAME -> Num(1, sup.gear_ratio_factor)
      [] frame = DRIVE_SHAFT_FRAME -> Num(sup.gearbox_ratio, sup.gear_ratio_factor)
      [] frame = VELOCITY_CONTROL_FRAME ->
             Num(sup.tachometer_ratio_factor, sup.gear_ratio_factor)

\* int(value * f * si_unit_scaling_factor)
DeviceValue(value, f) == int(Mul(Mul(value, f), Whole(sup.si_unit_scaling_factor)))

\* C15: ProfilePositionHandler.set_profiler_configuration writes the
\* acceleration, the deceleration and the profile velocity, each as
\* int(value * f * si_unit_scaling_factor) with f = 1 in the position-control
\* frame (the value passes unchanged), 1/gear_ratio in the motor-shaft frame,
\* gearbox_ratio/gear_ratio in the drive-shaft frame and
\* tachometer_ratio/gear_ratio in the velocity-control frame.
C15_PositionConfigurationWrites ==
    (kind = "ProfilePositionHandler" /\ outcome.op = "set_profiler_configuration")
        => /\ outcome.kind = "return"
           /\ od_calls =
                << Call("profile_acceleration",
                        DeviceValue(input.acceleration, PositionFactorByRule(input.frame))),
                   Call("profile_deceleration",
                        DeviceValue(input.deceleration, PositionFactorByRule(input.frame))),
                   Call("profile_velocity",
                        DeviceValue(input.max_velocity, PositionFactorByRule(input.frame))) >>
           /\ input.frame = POSITION_CONTROL_FRAME
                 => od_calls[1].arg
                      = int(Mul(input.acceleration, Whole(sup.si_unit_scaling_factor)))

C15_Witness ==
    /\ kind = "ProfilePositionHandler"
    /\ outcome.op = "set_profiler_configuration"
    /\ sup.si_unit_scaling_factor = 10
    /\ sup.gearbox_ratio = 4 /\ sup.gear_ratio_factor = 4 /\ sup.tachometer_ratio_factor = 1
    /\ input.frame = VELOCITY_CONTROL_FRAME
    /\ input.acceleration = Whole(3)
    /\ od_calls = << Call("profile_acceleration", 7), Call("profile_deceleration", 12),
                     Call("profile_velocity", 17) >>

\* The factor of the velocity handler as the symmetric rule states it.
VelocityFactorByRule(frame) ==
    CASE frame = VELOCITY_CONTROL_FRAME -> Whole(1)
      [] frame = MOTOR_SHAFT_FRAME -> Num(1, sup.tachometer_ratio_factor)
      [] frame = DRIVE_SHAFT_FRAME -> Num(sup.gearbox_ratio, sup.tachometer_ratio_factor)
      [] frame = POSITION_CONTROL_FRAME ->
             Num(sup.gear_ratio_factor, sup.tachometer_ratio_factor)

\* C16: after VelocityProfileHandler.set_profiler_configuration with the
\* frame F, set_target_velocity(v) writes int(v * f) * si_unit_scaling_factor
\* to the device, with f = 1/tachometer_ratio (motor shaft),
\* gearbox_ratio/tachometer_ratio (drive shaft), 1 (velocity control) and
\* gear_ratio/tachometer_ratio (position control).
C16_TargetVelocityWrite ==
    (kind = "VelocityProfileHandler" /\ outcome.op = "set_target_velocity"
       /\ sup.configured_frame # None)
        => /\ outcome.kind = "return"
           /\ od_calls =
                << Call("target_velocity",
                        int(Mul(input.target_velocity,
                                VelocityFactorByRule(Val(sup.configured_frame))))
                          * sup.si_unit_scaling_factor) >>

C16_Witness ==
    /\ kind = "VelocityProfileHandler"
    /\ outcome.op = "set_target_velocity"
    /\ sup.configured_frame = Some(MOTOR_SHAFT_FRAME)
    /\ sup.tachometer_ratio_factor = 2
    /\ sup.si_unit_scaling_factor = 10
    /\ input.target_velocity = Whole(100)
    /\ od_calls = <<Call("target_velocity", 500)>>

----------------------------------------------------------------------------
(* Claims about the profiler handlers, checked under SpecProfiler *)

VelocityOrPosition == {"VelocityProfileHandler", "ProfilePositionHandler"}

\* The value the demand is compared with: the target velocity in device
\* units, or the expected position (the target position when none is given).
DemandTarget(s, arguments) ==
    IF kind = "VelocityProfileHandler" THEN s.target_velocity * s.si_unit_scaling_factor
    ELSE IF arguments.expected_position = None THEN Val(s.target_position)
    ELSE Val(arguments.expected_position)

\* The target tolerance, for the velocity in device units.
ToleranceOf(s) ==
    IF kind = "VelocityProfileHandler"
    THEN Mul(s.target_tolerance, Whole(s.si_unit_scaling_factor))
    ELSE Whole(s.target_tolerance)

\* abs(d - target) <= tolerance
WithinTolerance(d, s, arguments) ==
    Leq(Whole(Abs(d - DemandTarget(s, arguments))), ToleranceOf(s))

\* What a call of is_target_reached does when it goes as described: one read
\* of the demand, True exactly when the demand is within the tolerance and
\* the deadline is past, the deadline moved to now + stabilization_duration
\* when the demand is outside the tolerance and kept otherwise.
IsTargetReachedAsDescribed ==
    LET d == od_calls'[1].arg
        within == WithinTolerance(d, sup, input')
        past == sup.stabilization_time # None /\ now > Val(sup.stabilization_time)
    IN /\ Len(od_calls') = 1
       /\ od_calls'[1].call \in {"velocity_demand_value", "position_demand_internal_value"}
       /\ outcome'.kind = "return"
       /\ outcome'.msg = (IF within /\ past THEN "True" ELSE "False")
       /\ sup' = [sup EXCEPT !.stabilization_time =
                               IF within THEN @
                               ELSE Some(now + sup.stabilization_duration)]

IsTargetReachedCall ==
    outcome'.op = "is_target_reached" /\ kind \in VelocityOrPosition

C17_WitnessReset ==
    /\ kind = "VelocityProfileHandler"
    /\ outcome.op = "is_target_reached"
    /\ outcome.msg = "False"
    /\ od_calls = <<Call("velocity_demand_value", 516)>>
    /\ sup.target_velocity = 50
    /\ sup.stabilization_time = Some(now + 25)

C17_WitnessWaiting ==
    /\ kind = "VelocityProfileHandler"
    /\ outcome.op = "is_target_reached"
    /\ outcome.msg = "False"
    /\ od_calls = <<Call("velocity_demand_value", 485)>>
    /\ sup.target_velocity = 50
    /\ sup.stabilization_time = Some(now)
    /\ now > 0


\* go_to_velocity or go_to_position has ended.
GoToEnded == pc = "idle" /\ outcome.op \in {"go_to_velocity", "go_to_position"}
GoToReturned == GoToEnded /\ outcome.kind = "return"

\* C18: go_to_position returns only at a poll whose demand is within the
\* tolerance, when every poll of the preceding stabilization_duration was
\* within the tolerance too: more than stabilization_duration has passed since
\* the last poll outside the tolerance and since start_trajectory armed the
\* deadline.
C18_ReturnsAfterStablePolls ==
    (kind = "ProfilePositionHandler" /\ GoToReturned)
        => /\ polls # <<>>
           /\ polls[Len(polls)].t = now
           /\ WithinTolerance(polls[Len(polls)].d, sup, input)
           /\ \A i \in DOMAIN polls :
                 polls[i].t >= now - sup.stabilization_duration
                    => WithinTolerance(polls[i].d, sup, input)
           /\ \A i \in DOMAIN polls :
                 ~WithinTolerance(polls[i].d, sup, input)
                    => now > polls[i].t + sup.stabilization_duration
           /\ now > call_start + SettleDelay + sup.stabilization_duration

\* The demand enters the tolerance, leaves it and enters it again, and the
\* call returns 30 ms after the poll outside (stabilization_duration: 25 ms).
C18_Witness ==
    /\ kind = "ProfilePositionHandler"
    /\ GoToReturned
    /\ sup.stabilization_duration = 25
    /\ sup.target_tolerance = 30
    /\ input.expected_position = None
    /\ Len(polls) = 5
    /\ polls[1].d = 970
    /\ polls[2].d = 500
    /\ polls[3].d = 1000
    /\ polls[4].d = 1000
    /\ polls[5].d = 970
    /\ now = polls[2].t + 30


\* The poll of a go_to loop that reads the demand d finds the target reached.
ReachedAt(d, t) ==
    WithinTolerance(d, sup, input) /\ t > Val(sup.stabilization_time)

\* What the failure message of go_to_velocity / go_to_position reports: the
\* target (the velocity target in the configured frame) and the demand read
\* last, d2 (the velocity demand in the configured frame).
ReportsTargetAndDemand(reported, d2) ==
    IF kind = "VelocityProfileHandler"
    THEN /\ Mul(reported[1], sup.configured_frame_to_velocity_control_frame)
              = Whole(sup.target_velocity)
         /\ Mul(Mul(reported[2], sup.configured_frame_to_velocity_control_frame),
                Whole(sup.si_unit_scaling_factor)) = Whole(d2)
    ELSE /\ reported[3] = sup.target_position
         /\ reported[2] = Some(d2)

C19_WitnessTimeout ==
    /\ kind = "ProfilePositionHandler"
    /\ GoToEnded
    /\ outcome.kind = "Failed"
    /\ outcome.msg = "profile_timeout"
    /\ outcome.reported = <<Some(990), Some(0), Some(1000)>>
    /\ sup.profiler_timeout = 40
    /\ now = deadline + PollInterval
    /\ polls[Len(polls)].d = 970


\* The target the handler stores is zero.
StoredTargetIsZero ==
    CASE kind = "TorqueProfileHandler" -> sup.target_torque = 0
      [] kind = "VelocityProfileHandler" -> sup.target_velocity = 0
      [] kind = "ProfilePositionHandler" -> sup.target_position = Some(0)

\* C20: set_profiler_configuration of each of the three handlers resets the
\* target: when it has returned the stored target is 0, whatever target was
\* set before.
C20_ConfigurationResetsTarget ==
    outcome.op = "set_profiler_configuration" => StoredTargetIsZero

\* The velocity handler does reset its target, and writes the zero to the
\* device.
VelocityConfigurationResetsTarget ==
    (kind = "VelocityProfileHandler" /\ outcome.op = "set_profiler_configuration")
        => /\ sup.target_velocity = 0
           /\ od_calls[Len(od_calls)] = Call("target_velocity", 0)

\* The torque and the position handler keep the target set before.
TargetKeptByConfiguration ==
    [][ (kind \in {"TorqueProfileHandler", "ProfilePositionHandler"}
           /\ outcome'.op = "set_profiler_configuration")
        => IF kind = "TorqueProfileHandler"
           THEN sup'.target_torque = sup.target_torque
           ELSE sup'.target_position = sup.target_position ]_vars

TorqueTargetKept ==
    /\ kind = "TorqueProfileHandler"
    /\ outcome.op = "set_profiler_configuration"
    /\ sup.target_torque = 50


----------------------------------------------------------------------------
(* Setting a target, checked under SpecProfiler *)

\* The operations that set a target.
SetTargetOps == {"set_target_torque", "set_target_velocity", "start_trajectory"}

\* The handler s holds the stabilization deadline t + stabilization_duration.
ArmedAt(s, t) ==
    IF kind = "TorqueProfileHandler"
    THEN /\ "stabilization_time" \in DOMAIN s
         /\ s.stabilization_duration # None
         /\ s.stabilization_time = t + Val(s.stabilization_duration)
    ELSE s.stabilization_time = Some(t + s.stabilization_duration)

\* The demand d is within the tolerance of the stored target.
WithinToleranceOfTarget(d, s) ==
    IF kind = "TorqueProfileHandler"
    THEN Abs(d - s.target_torque) <= s.target_tolerance
    ELSE WithinTolerance(d, s, [expected_position |-> None])

\* The step is a call of is_target_reached made right after a target was
\* set, the demand it reads being within the tolerance of that target.
ReachedRightAfterTarget ==
    /\ outcome.op \in SetTargetOps
    /\ outcome'.op = "is_target_reached"
    /\ Len(od_calls') = 1
    /\ WithinToleranceOfTarget(od_calls'[1].arg, sup)

\* Setting a target arms the deadline, and the call of is_target_reached
\* right after it returns False.
SettingTargetArmsDeadline ==
    /\ (outcome'.op \in SetTargetOps) => ArmedAt(sup', now')
    /\ ReachedRightAfterTarget => (outcome'.kind = "return" /\ outcome'.msg = "False")

\* C21: for each of the three handlers, setting a target (set_target_torque,
\* set_target_velocity, start_trajectory) arms the stabilization deadline at
\* now + stabilization_duration, and is_target_reached called right after it
\* with the demand already within the tolerance returns False: it neither
\* returns True nor ends in an error.
C21_SettingTargetArmsDeadline ==
    [][SettingTargetArmsDeadline]_vars

\* The velocity and the position handler do so.
DeadlineArmedByVelocityAndPosition ==
    [][(kind \in VelocityOrPosition) => SettingTargetArmsDeadline]_vars

\* set_target_torque stores and writes the target and nothing else: a handler
\* that never saw a demand outside the tolerance has no deadline at all, and
\* is_target_reached then ends in an AttributeError.
TorqueTargetLeavesDeadline ==
    [][ outcome'.op = "set_target_torque"
        => /\ DOMAIN sup' = DOMAIN sup
           /\ \A f \in DOMAIN sup \ {"target_torque"} : sup'[f] = sup[f] ]_vars

TorqueReachedWithoutDeadline ==
    /\ kind = "TorqueProfileHandler"
    /\ outcome.op = "is_target_reached"
    /\ outcome.kind = "AttributeError"
    /\ sup.target_torque = 50
    /\ od_calls = <<Call("torque_demand", 50)>>


\* The step runs start_trajectory: called by the test, or by go_to_position
\* before its loop.
StartTrajectoryRuns ==
    \/ outcome'.op = "start_trajectory"
    \/ (pc = "idle" /\ pc' = "going" /\ kind = "ProfilePositionHandler")

\* The steps of start_trajectory, in their order.
StartTrajectoryInOrder ==
    /\ sup'.target_position = Some(input'.target_position)
    /\ od_calls' = << Call("target_position", input'.target_position),
                      Call("pp_start_next_position_now", 0),
                      Call("sleep", SettleDelay),
                      Call("pp_reset_bits", 0) >>
    /\ now' = now + SettleDelay
    /\ sup'.stabilization_time = Some(now' + sup'.stabilization_duration)

\* C22: every call of ProfilePositionHandler.start_trajectory stores and
\* writes the target position, issues the start-next-position-now pulse,
\* waits the settle delay, resets the pulse bits and only then arms the
\* stabilization deadline (at the time after the delay); the pulse never comes
\* before the target write and is reset before the call returns.
C22_StartTrajectoryOrder ==
    [][StartTrajectoryRuns => StartTrajectoryInOrder]_vars

C22_Witness ==
    /\ kind = "ProfilePositionHandler"
    /\ outcome.op = "start_trajectory"
    /\ od_calls[1] = Call("target_position", 1000)
    /\ od_calls[2].call = "pp_start_next_position_now"
    /\ od_calls[4].call = "pp_reset_bits"
    /\ now = 30
    /\ sup.stabilization_time = Some(55)


----------------------------------------------------------------------------
(* Claims about the toolbox, checked under SpecToolbox *)

\* C23: whatever SI unit velocity code the device holds,
\* get_si_unit_scaling_factor returns 1, 10, 100 or 1000, and so the
\* si_unit_scaling_factor a velocity or position handler stores when it is
\* constructed is one of these four.
C23_ScalingFactorOneOfFour ==
    /\ (output # None /\ output.op = "get_si_unit_scaling_factor")
         => output.result.value \in {Some(f) : f \in SiFactors}
    /\ (output # None /\ output.op = "__init__" /\ output.result.kind = "return")
         => output.result.value.si_unit_scaling_factor \in {Some(f) : f \in SiFactors}

\* What the function does: the factor for the four codes it knows, and None
\* for every other code.
ScalingFactorOrNone ==
    (output # None /\ output.op = "get_si_unit_scaling_factor")
        => output.result =
             ( IF input.si_unit_velocity = SiUnitVelocity(0) THEN Ret(1)
               ELSE IF input.si_unit_velocity = SiUnitVelocity(255) THEN Ret(10)
               ELSE IF input.si_unit_velocity = SiUnitVelocity(254) THEN Ret(100)
               ELSE IF input.si_unit_velocity = SiUnitVelocity(253) THEN Ret(1000)
               ELSE RetNone )

\* A handler constructed with no scaling factor.
SupervisorWithoutScalingFactor ==
    /\ output # None
    /\ output.op = "__init__"
    /\ output.result.kind = "return"
    /\ output.result.value.si_unit_scaling_factor = None
    /\ input.si_unit_velocity = SiUnitVelocity(1)


\* The ports of the device that are configured with one of `functions`.
PortsWith(od, functions) ==
    { i \in 1..Len(od.feedback_sensor_ports) :
        /\ od.feedback_sensor_ports[i] # 0
        /\ od.parameter[od.feedback_sensor_ports[i]] \in functions }

\* The configuration of the first of them, or None when there is none.
FirstPortWith(od, functions) ==
    IF PortsWith(od, functions) = {} THEN None
    ELSE Some(od.feedback_sensor_ports[
                 CHOOSE i \in PortsWith(od, functions) :
                    \A j \in PortsWith(od, functions) : i <= j])

\* The sensors of the device used for commutation, for position control and
\* for velocity control.
CommutationSensor(od) ==
    FirstPortWith(od, {COMMUTATION_AND_MOTION_CONTROL_FEEDBACK, COMMUTATION_AND_MONITORING,
                       COMMUTATION_ONLY, COMMUTATION_AND_VELOCITY})
PositionControlSensor(od) ==
    FirstPortWith(od, {COMMUTATION_AND_MOTION_CONTROL_FEEDBACK,
                       MOTION_CONTROL_FEEDBACK_ONLY, POSITION})
VelocityControlSensor(od) ==
    FirstPortWith(od, {COMMUTATION_AND_MOTION_CONTROL_FEEDBACK,
                       MOTION_CONTROL_FEEDBACK_ONLY, COMMUTATION_AND_VELOCITY})

\* The result `r` is the ratio for the control sensor `sensor`: 1 when it is
\* the commutation sensor, the gearbox ratio (motor revolutions divided by
\* shaft revolutions, rounded down) otherwise.  When one of the two sensors
\* is missing the call raises ExceptionSensorConfig, and with zero shaft
\* revolutions the gearbox ratio is a ZeroDivisionError.
RatioByRule(r, od, sensor) ==
    IF sensor = None \/ CommutationSensor(od) = None
    THEN r.kind = "ExceptionSensorConfig"
    ELSE IF sensor = CommutationSensor(od) THEN r = Ret(1)
    ELSE IF od.gear_ratio_shaft_revolutions = 0 THEN r.kind = "ZeroDivisionError"
    ELSE r = Ret(od.gear_ratio_motor_revolutions \div od.gear_ratio_shaft_revolutions)

\* C24: get_gear_ratio returns 1 when the sensor configured for position
\* control is the commutation sensor and the gearbox ratio otherwise, and
\* get_tachometer_ratio does the same for the velocity control sensor.
C24_GearAndTachometerRatio ==
    /\ (output # None /\ output.op = "get_gear_ratio")
         => RatioByRule(output.result, input, PositionControlSensor(input))
    /\ (output # None /\ output.op = "get_tachometer_ratio")
         => RatioByRule(output.result, input, VelocityControlSensor(input))

\* A position sensor behind the gearbox: the gear ratio is 7 // 2 = 3 ...
C24_Witness ==
    /\ output # None
    /\ output.op = "get_gear_ratio"
    /\ output.result = Ret(3)
    /\ input.feedback_sensor_ports = <<1, 0, 2>>
    /\ input.parameter = <<COMMUTATION_AND_VELOCITY, POSITION>>

\* ... while the velocity is measured on the motor shaft: the tachometer
\* ratio of the same device is 1.
C24_WitnessOne ==
    /\ output # None
    /\ output.op = "get_tachometer_ratio"
    /\ output.result = Ret(1)
    /\ input.feedback_sensor_ports = <<1, 0, 2>>
    /\ input.parameter = <<COMMUTATION_AND_VELOCITY, POSITION>>

\* The functions the claim lists for each selection, {} where none is made.
FunctionsBySelection(position_control, velocity_control) ==
    CASE position_control = "True" /\ velocity_control = "False" -> {POSITION}
      [] position_control = "False" /\ velocity_control = "True" -> {COMMUTATION_AND_VELOCITY}
      [] position_control = "True" /\ velocity_control = "None" ->
            {COMMUTATION_AND_MOTION_CONTROL_FEEDBACK, MOTION_CONTROL_FEEDBACK_ONLY, POSITION}
      [] position_control = "None" /\ velocity_control = "True" ->
            {COMMUTATION_AND_MOTION_CONTROL_FEEDBACK, MOTION_CONTROL_FEEDBACK_ONLY,
             COMMUTATION_AND_VELOCITY}
      [] position_control = "True" /\ velocity_control = "True" ->
            {COMMUTATION_AND_MOTION_CONTROL_FEEDBACK, MOTION_CONTROL_FEEDBACK_ONLY}
      [] OTHER -> {}

\* C25: get_motion_encoder_config_index returns the configuration index of
\* the first sensor port, in ascending order, that is configured (index # 0)
\* with a function of the selected set, and raises ExceptionSensorConfig when
\* no port qualifies or when neither position_control nor velocity_control is
\* selected.
C25_MotionEncoderConfigIndex ==
    (output # None /\ output.op = "get_motion_encoder_config_index")
        => LET first == FirstPortWith(input, FunctionsBySelection(output.args[1],
                                                                  output.args[2]))
           IN IF first = None
              THEN output.result.kind = "ExceptionSensorConfig"
              ELSE output.result = Ret(Val(first))

\* The first port is not configured, the second has another function, the
\* third one qualifies.
C25_Witness ==
    /\ output # None
    /\ output.op = "get_motion_encoder_config_index"
    /\ output.args = <<"True", "None">>
    /\ input.feedback_sensor_ports = <<0, 1, 2>>
    /\ input.parameter = <<COMMUTATION_AND_VELOCITY, POSITION>>
    /\ output.result = Ret(2)

\* No port qualifies, and nothing is selected.
C25_WitnessNoSensor ==
    /\ output # None
    /\ output.op = "get_motion_encoder_config_index"
    /\ output.args = <<"False", "True">>
    /\ input.feedback_sensor_ports = <<1, 2>>
    /\ input.parameter = <<POSITION, MOTION_CONTROL_FEEDBACK_ONLY>>
    /\ output.result.kind = "ExceptionSensorConfig"

C25_WitnessNoSelection ==
    /\ output # None
    /\ output.op = "get_motion_encoder_config_index"
    /\ output.args = <<"False", "None">>
    /\ input.feedback_sensor_ports = <<1, 2>>
    /\ output.result.msg = "No function was selected."


----------------------------------------------------------------------------
(* Failure kinds and retries, checked under Spec and SpecProfiler *)

\* check_response ended because the deadline expired with the status still
\* in progress.
EndedOnTimeout ==
    outcome.op = "check_response" /\ outcome.msg = "in_progress_timeout"

\* C26: every adapter reports the expiry of the deadline while the status is
\* in progress as the command-timeout failure (pytest.fail), never as the
\* device-command error (OsCommandException).
C26_TimeoutIsTestFailure ==
    EndedOnTimeout => (outcome.kind = "Failed" /\ outcome.kind # "OsCommandException")

\* All adapters but PhaseInductanceMeasurementHandler do so; that one raises
\* OsCommandException.
TimeoutKindByAdapter ==
    EndedOnTimeout
        => outcome.kind = ( IF kind = "PhaseInductanceMeasurementHandler"
                            THEN "OsCommandException" ELSE "Failed" )

PhaseInductanceTimeoutRaises ==
    /\ kind = "PhaseInductanceMeasurementHandler"
    /\ EndedOnTimeout
    /\ outcome.kind = "OsCommandException"
    /\ response[0] = IN_PROCESS_100


\* The calls of the object dictionary that write the command register, and
\* those that write a target.
CommandWritesIn(calls) == {i \in DOMAIN calls : calls[i].call = "os_command_command"}
TargetWritesIn(calls) ==
    {i \in DOMAIN calls : calls[i].call \in {"target_velocity", "target_position"}}

\* A step of a check_response call: its start or one iteration of its loop.
CheckResponseStep == pc' = "polling" \/ pc = "polling"

\* Nothing is issued again while a call waits: a check_response call never
\* writes the command register; a go_to call writes the target once when it
\* starts, before its first poll, and never in its loop.
NothingRetried ==
    /\ CheckResponseStep
         => (CommandWritesIn(od_calls') = {} /\ writes_made' = writes_made)
    /\ (pc = "idle" /\ pc' = "going")
         => (Cardinality(TargetWritesIn(od_calls')) = 1 /\ polls' = <<>>)
    /\ pc = "going" => TargetWritesIn(od_calls') = {}

\* C27: the core retries nothing.  During one check_response call of any
\* adapter, however it ends, the command register is never written; during
\* one go_to_velocity or go_to_position call the target is written exactly
\* once, before the first poll.
C27_NothingRetried == [][NothingRetried]_vars

\* A go_to_position call that polled five times, saw the demand leave the
\* tolerance and failed on the timeout ...
C27_Witness ==
    /\ kind = "ProfilePositionHandler"
    /\ GoToEnded
    /\ outcome.msg = "profile_timeout"
    /\ Len(polls) = 5
    /\ polls[1].d = 970
    /\ polls[4].d = 1031

\* ... and a check_response call that failed on the timeout after two polls,
\* with the one command write made before it.
C27_WitnessCheckResponse ==
    /\ kind = "CommutationOffsetMeasurementHandler"
    /\ EndedOnTimeout
    /\ now = call_start + 20
    /\ writes_made["h1"] = 1
    /\ current_command["h1"] # None


----------------------------------------------------------------------------
(* Runs without a target, checked under SpecNoTarget *)

IsTargetReachedEnded == outcome.op = "is_target_reached"

\* C28: a handler reports target reached only after a target was set.  In a
\* run in which no target-setting operation is ever called,
\* ProfilePositionHandler.is_target_reached fails (no trajectory was started)
\* and is_target_reached of no handler returns True.
C28_ReachedOnlyAfterTarget ==
    IsTargetReachedEnded
        => /\ kind = "ProfilePositionHandler"
                => (outcome.kind = "Failed" /\ outcome.msg = "no_trajectory")
           /\ ~(outcome.kind = "return" /\ outcome.msg = "True")

\* The position handler does fail, without reading the demand.
PositionFailsWithoutTrajectory ==
    (IsTargetReachedEnded /\ kind = "ProfilePositionHandler")
        => (outcome.kind = "Failed" /\ outcome.msg = "no_trajectory" /\ od_calls = <<>>)

\* The velocity and the torque handler compare the demand with the target 0
\* they start with: a demand of 0 that follows a demand outside the
\* tolerance by more than stabilization_duration is reported as reached.
VelocityReachedWithoutTarget ==
    /\ kind = "VelocityProfileHandler"
    /\ IsTargetReachedEnded
    /\ outcome.msg = "True"
    /\ sup.target_velocity = 0
    /\ od_calls = <<Call("velocity_demand_value", 0)>>

TorqueReachedWithoutTarget ==
    /\ kind = "TorqueProfileHandler"
    /\ IsTargetReachedEnded
    /\ outcome.msg = "True"
    /\ sup.target_torque = 0
    /\ od_calls = <<Call("torque_demand", 0)>>


----------------------------------------------------------------------------
(* The channel after a timeout, checked under Spec *)

\* The last check_response call ended on the timeout (the status it read
\* last is in progress and the call is over) with a command in flight.
TimedOutInFlight ==
    /\ pc = "idle"
    /\ response # None
    /\ response[0] \in status_in_progress
    /\ current_command["h1"] # None

\* The iteration that ends check_response on the timeout keeps the marker;
\* a command issued after it fails as busy, writes nothing and keeps the
\* marker; and the marker is cleared only by a poll that reads a status
\* outside the in-progress set.
MarkerKeptAfterTimeout ==
    /\ (pc = "polling" /\ outcome'.msg = "in_progress_timeout")
         => /\ current_command' = current_command
            /\ get_active_command("h1")' = get_active_command("h1")
    /\ (TimedOutInFlight /\ outcome'.op \in IssueOps)
         => /\ outcome'.kind = "Failed"
            /\ outcome'.msg = "busy"
            /\ od_calls' = <<>>
            /\ current_command' = current_command
    /\ (current_command["h1"] # None /\ current_command'["h1"] = None)
         => (pc = "polling" /\ response'[0] \notin status_in_progress)

\* C29: when check_response of an adapter ends with the timeout failure the
\* in-flight marker is still set: get_active_command() still returns the
\* timed-out command and a following start_procedure / execute_command on
\* the adapter fails as busy, until a later poll reads a status outside the
\* in-progress set.
C29_MarkerKeptAfterTimeout == [][MarkerKeptAfterTimeout]_vars

\* start_procedure failed as busy after the call timed out ...
C29_Witness ==
    /\ kind = "CommutationOffsetMeasurementHandler"
    /\ TimedOutInFlight
    /\ now > deadline
    /\ outcome.op = "start_procedure"
    /\ outcome.msg = "busy"
    /\ get_active_command("h1") = start_procedure(kind)

\* ... and a later check_response call freed the channel: its poll read a
\* terminal status and the command was issued again.
C29_WitnessFreed ==
    /\ kind = "CommutationOffsetMeasurementHandler"
    /\ outcome.op = "start_procedure"
    /\ outcome.kind = "return"
    /\ writes_made["h1"] = 2
    /\ call_start >= 10


----------------------------------------------------------------------------
(* Two adapters on one device, checked under SpecTwoAdapters *)

\* The adapter called in the step, and the other one.
CalledChannel == input'.channel
OtherChannel == CHOOSE g \in Channels : g # input'.channel

\* A call on one adapter leaves the other adapter's marker as it is, and a
\* command is accepted by an adapter with no command in flight, whatever the
\* other adapter has in flight.
MarkersIndependent ==
    /\ current_command'[OtherChannel] = current_command[OtherChannel]
    /\ (outcome'.op = "execute_command" /\ current_command[CalledChannel] = None)
         => /\ outcome'.msg # "busy"
            /\ current_command'[CalledChannel] = input'.command
    /\ (outcome'.op = "execute_command" /\ current_command[CalledChannel] # None)
         => outcome'.msg = "busy"

\* C30: each adapter instance owns its channel.  The in-flight markers of two
\* adapters created on the same device are independent: execute_command and
\* get_response on one adapter never set or clear the other's marker, and a
\* command on one adapter is accepted while the other has a command in flight.
C30_MarkersIndependent == [][MarkersIndependent]_vars

\* The second adapter's command was accepted while the first one's is in
\* flight: both markers are set, to different commands.
C30_Witness ==
    /\ input # None
    /\ input.channel = "h2"
    /\ outcome.op = "execute_command"
    /\ outcome.kind = "return"
    /\ current_command["h1"] = List8(COMMUTATION_OFFSET_MEASUREMENT, 0, 0, 0, 0, 0, 0, 0)
    /\ current_command["h2"] = List8(ENCODER_REGISTER_COMMUNICATION, 1, 1, 0, 7, 0, 0, 0)

\* A terminal status read by the first adapter frees its channel and leaves
\* the second adapter's command in flight.
C30_WitnessCleared ==
    /\ input # None
    /\ input.channel = "h1"
    /\ outcome.op = "get_response"
    /\ response[0] = COMPLETED_NOERROR_WITHREPLY
    /\ current_command["h1"] = None
    /\ current_command["h2"] # None
    /\ writes_made["h1"] = 1


----------------------------------------------------------------------------
(* The order of the poll and the deadline, checked under Spec *)

\* The four statuses that end a command.
TerminalStatuses ==
    { COMPLETED_NOERROR_NOREPLY, COMPLETED_NOERROR_WITHREPLY,
      COMPLETED_WITHERROR_NOREPLY, COMPLETED_WITHERROR_WITHREPLY }

\* A check_response call ends only in an iteration of its loop, which has
\* read the response at least 10 ms after the call began; and the iteration
\* that reads a terminal status ends the call as the branch of that status
\* says, whether or not the deadline has passed: never with the timeout.
PollBeforeDeadline ==
    /\ (outcome'.op = "check_response" /\ outcome'.kind # "none")
         => /\ pc = "polling"
            /\ od_calls' = <<OdRead>>
            /\ now' >= call_start + PollInterval
    /\ (pc = "polling" /\ response'[0] \in TerminalStatuses)
         => /\ pc' = "idle"
            /\ outcome'.msg # "in_progress_timeout"
            /\ outcome' = check_response(kind, response', FALSE, timeout)

\* C31: check_response always polls at least once, even with a timeout of
\* zero, and examines the deadline only after it has handled the polled
\* status: a terminal status read by a poll decides how the call ends even
\* if the deadline had passed when the poll was made.
C31_PollBeforeDeadline == [][PollBeforeDeadline]_vars

\* With a timeout of zero the deadline has passed at the first poll; the
\* reply it reads is returned ...
C31_Witness ==
    /\ kind = "CommutationOffsetMeasurementHandler"
    /\ timeout = 0
    /\ pc = "idle"
    /\ now = call_start + PollInterval
    /\ now > deadline
    /\ response[0] = COMPLETED_NOERROR_WITHREPLY
    /\ outcome.op = "check_response"
    /\ outcome.kind = "return"

\* ... and the device error it reads is raised.
C31_WitnessError ==
    /\ kind = "PolePairDetectionHandler"
    /\ timeout = 0
    /\ pc = "idle"
    /\ now > deadline
    /\ response[0] = COMPLETED_WITHERROR_WITHREPLY
    /\ outcome.op = "check_response"
    /\ outcome.kind = "OsCommandException"
    /\ outcome.msg = "error_code"


----------------------------------------------------------------------------
(* The go_to calls whose profiler_timeout is shorter than the stabilization *)

\* <<target_tolerance, profiler_timeout, stabilization_duration>> in ms: the
\* timeout ends before the stabilization deadline, one poll or less than one
\* poll earlier, or after it.
StabilizationArguments ==
    { <<None, Some(0), Some(5)>>, <<None, Some(10), Some(15)>>,
      <<None, Some(10), Some(25)>>, <<None, Some(20), Some(10)>> }

NextStabilization ==
    \/ \E a \in StabilizationArguments :
          VelocitySetProfilerConfiguration(MOTOR_SHAFT_FRAME, Whole(3), Whole(5), Whole(3),
                                           a[2], a[3])
    \/ \E a \in StabilizationArguments :
          PositionSetProfilerConfiguration(MOTOR_SHAFT_FRAME, Whole(3), Whole(5), Whole(7),
                                           a[1], a[2], a[3])
    \/ Sleep
    \/ GoToVelocity(Whole(100))
    \/ \E e \in ExpectedPositions : GoToPosition(1000, e)
    \/ GoToPollStep

SpecStabilization == InitGoTo /\ [][NextStabilization]_vars

\* The stabilization deadline the target-setting step of the running go_to
\* call armed: set_target_velocity at the start of the call, start_trajectory
\* after its sleep of 10 ms.
ArmedByTarget ==
    call_start + (IF kind = "ProfilePositionHandler" THEN SettleDelay ELSE 0)
      + sup.stabilization_duration

\* The call ended with the profile-timeout failure.
EndedOnProfileTimeout ==
    GoToEnded /\ outcome.kind = "Failed" /\ outcome.msg = "profile_timeout"

\* Every poll of the call read a demand within the tolerance.
WithinToleranceAtEveryPoll ==
    \A i \in 1..Len(polls) : WithinTolerance(polls[i].d, sup, input)

\* A go_to call returns only after the deadline its target-setting step armed.
ReturnsAfterStabilization == GoToReturned => now > ArmedByTarget

\* The target-setting step arms the deadline and the loop only moves it
\* forward.
DeadlineMovesForward ==
    /\ (pc = "idle" /\ pc' = "going")
          => sup'.stabilization_time = Some(ArmedByTarget')
    /\ (pc = "going")
          => Val(sup'.stabilization_time) >= Val(sup.stabilization_time)

\* A call whose profiler_timeout ends before the armed deadline fails.
TimeoutBeforeStabilizationFails ==
    (GoToEnded /\ deadline < ArmedByTarget) => EndedOnProfileTimeout

TimeoutAtPollBeforeStabilization ==
    (pc = "going" /\ now' > deadline /\ now' <= Val(sup.stabilization_time))
       => /\ pc' = "idle"
          /\ outcome'.kind = "Failed"
          /\ outcome'.msg = "profile_timeout"

C32_WitnessReturned ==
    /\ GoToReturned
    /\ sup.profiler_timeout = 10
    /\ sup.stabilization_duration = 15
    /\ deadline < ArmedByTarget
    /\ WithinToleranceAtEveryPoll
    /\ now > ArmedByTarget


----------------------------------------------------------------------------
(* The gearbox ratio, checked under SpecToolbox *)

\* The largest integer q with q * shaft <= motor, for positive motor and shaft.
FloorOfRatio(motor, shaft) ==
    CHOOSE q \in 0..motor : q * shaft <= motor /\ motor < (q + 1) * shaft

\* The device's gear ratio object holds two positive integers.
PositiveRevolutions(od) ==
    od.gear_ratio_motor_revolutions > 0 /\ od.gear_ratio_shaft_revolutions > 0

\* The values `v` a supervisor has read from the device, and the conversion
\* factors its set_profiler_configuration computes from them, come from the
\* integer q: the stored ratios are q or 1, and the factors of the drive
\* shaft and motor shaft frames are q or 1 divided by a stored ratio.
FactorsFromRatio(v, q) ==
    LET tacho == Val(v.tachometer_ratio_factor)
        gear == Val(v.gear_ratio_factor)
        velocity == VelocityProfileHandler_init(10, tacho, gear, Val(v.gearbox_ratio))
        position == ProfilePositionHandler_init(10, tacho, gear, Val(v.gearbox_ratio))
    IN /\ v.gearbox_ratio = Some(q)
       /\ tacho \in {1, q}
       /\ gear \in {1, q}
       /\ tacho # 0
            => /\ VelocityFrameFactor(velocity, DRIVE_SHAFT_FRAME) = TrueDiv(Whole(q), Whole(tacho))
               /\ VelocityFrameFactor(velocity, MOTOR_SHAFT_FRAME) = TrueDiv(Whole(1), Whole(tacho))
               /\ VelocityFrameFactor(velocity, POSITION_CONTROL_FRAME)
                     \in {TrueDiv(Whole(a), Whole(tacho)) : a \in {1, q}}
       /\ gear # 0
            => /\ PositionFrameFactor(position, DRIVE_SHAFT_FRAME) = TrueDiv(Whole(q), Whole(gear))
               /\ PositionFrameFactor(position, MOTOR_SHAFT_FRAME) = TrueDiv(Whole(1), Whole(gear))
               /\ PositionFrameFactor(position, VELOCITY_CONTROL_FRAME)
                     \in {TrueDiv(Whole(a), Whole(gear)) : a \in {1, q}}

\* C33: for every pair of positive integers read from the device,
\* get_gearbox_ratio returns motor revolutions divided by shaft revolutions
\* rounded down to an integer (7 and 2 give 3, 1 and 2 give 0), and the
\* ratios and conversion factors of a supervisor constructed on the device
\* are derived from that integer.
C33_GearboxRatioFloor ==
    (output # None /\ PositiveRevolutions(input))
       => LET q == FloorOfRatio(input.gear_ratio_motor_revolutions,
                                input.gear_ratio_shaft_revolutions)
          IN /\ output.op = "get_gearbox_ratio" => output.result = Ret(q)
             /\ (output.op = "__init__" /\ output.result.kind = "return")
                   => FactorsFromRatio(output.result.value, q)

\* 7 motor revolutions for 2 shaft revolutions: the ratio is 3 ...
C33_Witness ==
    /\ output # None
    /\ output.op = "get_gearbox_ratio"
    /\ input.gear_ratio_motor_revolutions = 7
    /\ input.gear_ratio_shaft_revolutions = 2
    /\ output.result = Ret(3)

\* ... 1 for 2: the ratio is 0 ...
C33_WitnessZero ==
    /\ output # None
    /\ output.op = "get_gearbox_ratio"
    /\ input.gear_ratio_motor_revolutions = 1
    /\ input.gear_ratio_shaft_revolutions = 2
    /\ output.result = Ret(0)

\* ... and the supervisor of a device with 7 for 2 and the motion sensor
\* behind the gearbox stores 3 three times.
C33_WitnessSupervisor ==
    /\ output # None
    /\ output.op = "__init__"
    /\ input.gear_ratio_motor_revolutions = 7
    /\ input.gear_ratio_shaft_revolutions = 2
    /\ output.result.kind = "return"
    /\ output.result.value.gearbox_ratio = Some(3)
    /\ output.result.value.tachometer_ratio_factor = Some(3)
    /\ output.result.value.gear_ratio_factor = Some(3)

=============================================================================
